---- MODULE Spec2Model ----
(***************************************************************************)
(* Messier sky chart: the object classifier / styler (config.py), the      *)
(* coordinate parser, the data loader and the table functions              *)
(* (data_utils.py), the chart assembler (chart_generator.py) and the       *)
(* dashboard callbacks and start-up (main.py).                             *)
(*                                                                         *)
(* Text is modelled as a sequence of characters, each character a one-     *)
(* element string; the glyphs outside ASCII are written by name:           *)
(*   "deg" = U+00B0, "prime" = U+2032, "dprime" = U+2033,                   *)
(*   "uminus" = U+2212, "apos" = ASCII apostrophe, "quote" = ASCII quote.  *)
(***************************************************************************)
EXTENDS Integers, Sequences, FiniteSets, TLC

VARIABLES
    pc,           \* position of the driver of the component under check
    obj_type,     \* the value handed to classify_object_type / get_object_style
    categories,   \* results of the successive classify_object_type calls on obj_type
    style,        \* result of get_object_style(obj_type)
    trace_style,  \* style _add_messier_objects gives the trace of obj_type
    coord_src,    \* how the coordinate text was written: its form, sign and components
    coord_in,     \* the value handed to ra_to_degrees / dec_to_degrees
    coord_out,    \* what the call did: value returned, exception raised, warning printed
    load_args,    \* the call of load_messier_data: who calls, csv_path, use_astronomical_data
    load_env,     \* what the loader finds: the files, the imports, the SIMBAD answers
    load_out,     \* what the call did: value returned, exception raised, sources consulted
    decimal,      \* a known decimal coordinate, before it is written as text
    proc_in,      \* the table handed to process_coordinates
    proc_out,     \* what the call did: table returned, warning printed
    filter_args,  \* the arguments of a call of filter_data
    filter_out,   \* the table it returned
    chart,        \* the MessierSkyChart object: its four attributes
    chart_log,    \* calls of create_sky_chart: how many, the last one, one kept from before
    messier_data, \* create_app: the dataset the callbacks close over
    filter_options, \* create_app: the option lists the callbacks close over
    props,        \* the page: the value of each component property
    pending,      \* the callbacks the page has dispatched and the server has not run yet
    ui_events,    \* how many interactions the user has made
    loaded,       \* the dataset and the option lists as they were right after the load
    main_args,    \* __main__: the parsed command line
    main_env,     \* __main__: the environment and what create_app / app.run do
    main_out      \* __main__: host, port and debug used, messages printed, exit status

classVars == <<obj_type, categories, style, trace_style>>
coordVars == <<coord_src, coord_in, coord_out>>
loadVars == <<load_args, load_env, load_out>>
procVars == <<proc_in, proc_out>>
\* the variables of the components after the loader
filterVars == <<filter_args, filter_out>>
chartVars == <<chart, chart_log>>
uiVars == <<messier_data, filter_options, props, pending, ui_events, loaded>>
mainVars == <<main_args, main_env, main_out>>
restVars == <<decimal, procVars, filterVars, chartVars, uiVars, mainVars>>
vars == <<pc, classVars, coordVars, loadVars, restVars>>

\* ---------------------------------------------------------------- bounds
MaxWords == 3
MaxCalls == 2
\* the longest table handed to process_coordinates
MaxRows == 2
\* the calls of create_sky_chart made on one chart object
MaxChartCalls == 3
\* the interactions a user makes with the page
MaxEvents == 2
MaxHour == 24      \* hours written in RA texts: 0..MaxHour
FracDigits == 1    \* decimal places the model's numbers keep
SimbadQueries == 2 \* objects load_messier_from_simbad asks for (the code asks for 20)

\* ---------------------------------------------------------------- text
UpperLetters ==
    <<"A","B","C","D","E","F","G","H","I","J","K","L","M",
      "N","O","P","Q","R","S","T","U","V","W","X","Y","Z">>
LowerLetters ==
    <<"a","b","c","d","e","f","g","h","i","j","k","l","m",
      "n","o","p","q","r","s","t","u","v","w","x","y","z">>

\* each upper-case letter with its lower-case letter, and the converse
ToLower ==
    ("A" :> "a") @@ ("B" :> "b") @@ ("C" :> "c") @@ ("D" :> "d") @@ ("E" :> "e") @@ ("F" :> "f")
    @@ ("G" :> "g") @@ ("H" :> "h") @@ ("I" :> "i") @@ ("J" :> "j") @@ ("K" :> "k") @@ ("L" :> "l")
    @@ ("M" :> "m") @@ ("N" :> "n") @@ ("O" :> "o") @@ ("P" :> "p") @@ ("Q" :> "q") @@ ("R" :> "r")
    @@ ("S" :> "s") @@ ("T" :> "t") @@ ("U" :> "u") @@ ("V" :> "v") @@ ("W" :> "w") @@ ("X" :> "x")
    @@ ("Y" :> "y") @@ ("Z" :> "z")
ToUpper ==
    ("a" :> "A") @@ ("b" :> "B") @@ ("c" :> "C") @@ ("d" :> "D") @@ ("e" :> "E") @@ ("f" :> "F")
    @@ ("g" :> "G") @@ ("h" :> "H") @@ ("i" :> "I") @@ ("j" :> "J") @@ ("k" :> "K") @@ ("l" :> "L")
    @@ ("m" :> "M") @@ ("n" :> "N") @@ ("o" :> "O") @@ ("p" :> "P") @@ ("q" :> "Q") @@ ("r" :> "R")
    @@ ("s" :> "S") @@ ("t" :> "T") @@ ("u" :> "U") @@ ("v" :> "V") @@ ("w" :> "W") @@ ("x" :> "X")
    @@ ("y" :> "Y") @@ ("z" :> "Z")

\* str.lower() on one character
LowerChar(c) == IF c \in DOMAIN ToLower THEN ToLower[c] ELSE c

\* str.upper() on one character
UpperChar(c) == IF c \in DOMAIN ToUpper THEN ToUpper[c] ELSE c

\* str.lower() and str.upper(); the empty prefix makes TLC build the text once
Lower(s) == <<>> \o [i \in 1..Len(s) |-> LowerChar(s[i])]
Upper(s) == <<>> \o [i \in 1..Len(s) |-> UpperChar(s[i])]

\* Python's "sub in s" on strings (the two texts are bound once, then compared)
Contains(s, sub) ==
    \E text \in {s}, part \in {sub} :
        \E i \in 0..(Len(text) - Len(part)) :
            \A j \in 1..Len(part) : text[i + j] = part[j]

RECURSIVE Concat(_)
Concat(ws) == IF ws = <<>> THEN <<>> ELSE Head(ws) \o Concat(Tail(ws))

DigitChars == <<"0","1","2","3","4","5","6","7","8","9">>

\* str() of a non-negative integer
RECURSIVE IntStr(_)
IntStr(n) == IF n < 10 THEN <<DigitChars[n + 1]>>
             ELSE IntStr(n \div 10) \o <<DigitChars[(n % 10) + 1]>>

\* ---------------------------------------------------------------- values
\* A Python value reaching the functions: a str, None, a float NaN (the
\* missing-value marker of a table column) or an int.
StrV(s) == [kind |-> "str", s |-> s, n |-> 0]
NoneV == [kind |-> "None", s |-> <<>>, n |-> 0]
NaNV == [kind |-> "nan", s |-> <<>>, n |-> 0]
IntV(n) == [kind |-> "int", s |-> <<>>, n |-> n]

\* str(value)
Str(v) ==
    CASE v.kind = "str" -> v.s
      [] v.kind = "None" -> <<"N","o","n","e">>
      [] v.kind = "nan" -> <<"n","a","n">>
      [] v.kind = "int" -> IntStr(v.n)

\* ---------------------------------------------------------------- config.py

\* OBJECT_CATEGORIES, in the insertion order the dict iterates in
CategoryOrder == <<"Galaxy","Nebula","Cluster","Other">>

OBJECT_CATEGORIES ==
    ("Galaxy" :> [base_symbol |-> "circle", base_color |-> "#FF6B6B",
           keywords |-> <<<<"g","a","l","a","x","y">>,
                         <<"G","a","l","a","x","y">>>>])
    @@ ("Nebula" :> [base_symbol |-> "square", base_color |-> "#DDA0DD",
           keywords |-> <<<<"n","e","b","u","l","a">>,
                         <<"N","e","b","u","l","a">>>>])
    @@ ("Cluster" :> [base_symbol |-> "star", base_color |-> "#96CEB4",
           keywords |-> <<<<"c","l","u","s","t","e","r">>,
                         <<"C","l","u","s","t","e","r">>,
                         <<"c","l","o","u","d">>>>])
    @@ ("Other" :> [base_symbol |-> "diamond", base_color |-> "#FFEAA7",
           keywords |-> <<>>])
color_variations ==
    ("Galaxy" :>
        ((<<"s","p","i","r","a","l"," ","g","a","l","a","x","y">> :> "#FF6B6B") @@
         (<<"e","l","l","i","p","t","i","c","a","l"," ","g","a","l","a","x","y">> :> "#FF8E8E") @@
         (<<"d","w","a","r","f"," ","e","l","l","i","p","t","i","c","a","l"," ","g","a","l","a","x","y">> :> "#FFB1B1") @@
         (<<"b","a","r","r","e","d"," ","s","p","i","r","a","l"," ","g","a","l","a","x","y">> :> "#FF4848") @@
         (<<"l","e","n","t","i","c","u","l","a","r"," ","g","a","l","a","x","y">> :> "#FFA0A0") @@
         (<<"s","t","a","r","b","u","r","s","t"," ","g","a","l","a","x","y">> :> "#FF2525")))
    @@ ("Nebula" :>
        ((<<"p","l","a","n","e","t","a","r","y"," ","n","e","b","u","l","a">> :> "#DDA0DD") @@
         (<<"h"," ","i","i"," ","r","e","g","i","o","n"," ","n","e","b","u","l","a">> :> "#E6B3E6") @@
         (<<"d","i","f","f","u","s","e"," ","n","e","b","u","l","a">> :> "#F0C6F0") @@
         (<<"n","e","b","u","l","a"," ","w","i","t","h"," ","c","l","u","s","t","e","r">> :> "#D187D1") @@
         (<<"s","u","p","e","r","n","o","v","a"," ","r","e","m","n","a","n","t">> :> "#C66EC6")))
    @@ ("Cluster" :>
        ((<<"g","l","o","b","u","l","a","r"," ","c","l","u","s","t","e","r">> :> "#96CEB4") @@
         (<<"o","p","e","n"," ","c","l","u","s","t","e","r">> :> "#A8D4C1") @@
         (<<"m","i","l","k","y"," ","w","a","y"," ","s","t","a","r"," ","c","l","o","u","d">> :> "#BCDACF")))
    @@ ("Other" :>
        ((<<"o","p","t","i","c","a","l"," ","d","o","u","b","l","e">> :> "#FFEAA7") @@
         (<<"a","s","t","e","r","i","s","m">> :> "#FFE074")))

symbol_variations ==
    ("Galaxy" :>
        ((<<"s","p","i","r","a","l"," ","g","a","l","a","x","y">> :> "circle") @@
         (<<"e","l","l","i","p","t","i","c","a","l"," ","g","a","l","a","x","y">> :> "circle-open") @@
         (<<"d","w","a","r","f"," ","e","l","l","i","p","t","i","c","a","l"," ","g","a","l","a","x","y">> :> "circle-dot") @@
         (<<"b","a","r","r","e","d"," ","s","p","i","r","a","l"," ","g","a","l","a","x","y">> :> "circle-cross") @@
         (<<"l","e","n","t","i","c","u","l","a","r"," ","g","a","l","a","x","y">> :> "circle-x") @@
         (<<"s","t","a","r","b","u","r","s","t"," ","g","a","l","a","x","y">> :> "circle")))
    @@ ("Nebula" :>
        ((<<"p","l","a","n","e","t","a","r","y"," ","n","e","b","u","l","a">> :> "square") @@
         (<<"h"," ","i","i"," ","r","e","g","i","o","n"," ","n","e","b","u","l","a">> :> "square-open") @@
         (<<"d","i","f","f","u","s","e"," ","n","e","b","u","l","a">> :> "square-dot") @@
         (<<"n","e","b","u","l","a"," ","w","i","t","h"," ","c","l","u","s","t","e","r">> :> "square-cross") @@
         (<<"s","u","p","e","r","n","o","v","a"," ","r","e","m","n","a","n","t">> :> "triangle-up")))
    @@ ("Cluster" :>
        ((<<"g","l","o","b","u","l","a","r"," ","c","l","u","s","t","e","r">> :> "star") @@
         (<<"o","p","e","n"," ","c","l","u","s","t","e","r">> :> "star-open") @@
         (<<"m","i","l","k","y"," ","w","a","y"," ","s","t","a","r"," ","c","l","o","u","d">> :> "star-dot")))
    @@ ("Other" :>
        ((<<"o","p","t","i","c","a","l"," ","d","o","u","b","l","e">> :> "diamond") @@
         (<<"a","s","t","e","r","i","s","m">> :> "diamond-open")))

YOUR_OBJECT_TYPES ==
    <<<<"S","u","p","e","r","n","o","v","a"," ","r","e","m","n","a","n","t">>,
      <<"G","l","o","b","u","l","a","r"," ","c","l","u","s","t","e","r">>,
      <<"O","p","e","n"," ","c","l","u","s","t","e","r">>,
      <<"N","e","b","u","l","a"," ","w","i","t","h"," ","c","l","u","s","t","e","r">>,
      <<"H"," ","I","I"," ","r","e","g","i","o","n"," ","n","e","b","u","l","a"," ","w","i","t","h"," ","c","l","u","s","t","e","r">>,
      <<"M","i","l","k","y"," ","W","a","y"," ","s","t","a","r"," ","c","l","o","u","d">>,
      <<"P","l","a","n","e","t","a","r","y"," ","n","e","b","u","l","a">>,
      <<"S","p","i","r","a","l"," ","g","a","l","a","x","y">>,
      <<"D","w","a","r","f"," ","e","l","l","i","p","t","i","c","a","l"," ","g","a","l","a","x","y">>,
      <<"O","p","t","i","c","a","l"," ","D","o","u","b","l","e">>,
      <<"H"," ","I","I"," ","r","e","g","i","o","n"," ","n","e","b","u","l","a">>,
      <<"H"," ","I","I"," ","r","e","g","i","o","n"," ","n","e","b","u","l","a"," ","(","p","a","r","t"," ","o","f"," ","t","h","e"," ","O","r","i","o","n"," ","N","e","b","u","l","a",")">>,
      <<"E","l","l","i","p","t","i","c","a","l"," ","g","a","l","a","x","y">>,
      <<"B","a","r","r","e","d"," ","S","p","i","r","a","l"," ","g","a","l","a","x","y">>,
      <<"A","s","t","e","r","i","s","m">>,
      <<"D","i","f","f","u","s","e"," ","n","e","b","u","l","a">>,
      <<"S","t","a","r","b","u","r","s","t"," ","g","a","l","a","x","y">>,
      <<"L","e","n","t","i","c","u","l","a","r"," ","g","a","l","a","x","y">>>>
\* dict.get(key, default)
DictGet(d, k, default) == IF k \in DOMAIN d THEN d[k] ELSE default

\* "keyword.lower() in obj_type_str" for some keyword of the category
KeywordMatch(category, obj_type_str) ==
    LET keywords == OBJECT_CATEGORIES[category].keywords
    IN  \E k \in 1..Len(keywords) : Contains(obj_type_str, Lower(keywords[k]))

\* FirstMatch without the final "return 'Other'": the loop falls through (None)
RECURSIVE FirstMatch_NoDefault(_, _)
FirstMatch_NoDefault(cats, obj_type_str) ==
    IF cats = <<>> THEN "None"
    ELSE IF KeywordMatch(Head(cats), obj_type_str) THEN Head(cats)
    ELSE FirstMatch_NoDefault(Tail(cats), obj_type_str)

\* the loop over OBJECT_CATEGORIES.items(): first category with a match
RECURSIVE FirstMatch(_, _)
FirstMatch(cats, obj_type_str) ==
    IF cats = <<>> THEN "Other"
    ELSE IF KeywordMatch(Head(cats), obj_type_str) THEN Head(cats)
    ELSE FirstMatch(Tail(cats), obj_type_str)

\* classify_object_type matching against the label as written, not lower-cased
classify_object_type_NoLower(v) == FirstMatch(CategoryOrder, Str(v))

classify_object_type(v) == FirstMatch(CategoryOrder, Lower(Str(v)))

\* get_object_style looking the overrides up under the label as written
get_object_style_RawKey(v) ==
    LET category == FirstMatch(CategoryOrder, Lower(Str(v)))
        base_config == OBJECT_CATEGORIES[category]
        color == DictGet(DictGet(color_variations, category, <<>>),
                         Str(v), base_config.base_color)
        symbol == DictGet(DictGet(symbol_variations, category, <<>>),
                          Str(v), base_config.base_symbol)
    IN  [symbol |-> symbol, color |-> color, size |-> 8, category |-> category]

get_object_style(v) ==
    LET category == classify_object_type(v)
        base_config == OBJECT_CATEGORIES[category]
        obj_type_lower == Lower(Str(v))
        color == DictGet(DictGet(color_variations, category, <<>>),
                         obj_type_lower, base_config.base_color)
        symbol == DictGet(DictGet(symbol_variations, category, <<>>),
                          obj_type_lower, base_config.base_symbol)
    IN  [symbol |-> symbol, color |-> color, size |-> 8, category |-> category]

DefaultLabel == <<"D","e","f","a","u","l","t">>
DefaultStyle ==
    [symbol |-> "circle", color |-> "#BDC3C7", size |-> 6, category |-> "Other"]

\* OBJECT_STYLES: get_object_style of each of YOUR_OBJECT_TYPES, plus 'Default'
OBJECT_STYLES ==
    [k \in {YOUR_OBJECT_TYPES[i] : i \in 1..Len(YOUR_OBJECT_TYPES)} \cup {DefaultLabel} |->
        IF k = DefaultLabel THEN DefaultStyle ELSE get_object_style(StrV(k))]

\* ---------------------------------------------------------------- chart_generator.py
\* pd.isna(obj_type): the rows _add_messier_objects skips
IsNa(v) == v.kind \in {"None", "nan"}

\* the style _add_messier_objects gives the trace of one object-type value
TraceStyle(v) ==
    IF v.kind = "str" /\ v.s \in DOMAIN OBJECT_STYLES
    THEN OBJECT_STYLES[v.s]
    ELSE get_object_style(v)

\* ---------------------------------------------------------------- classifier driver
NoStyle == [symbol |-> "", color |-> "", size |-> 0, category |-> ""]

\* word fragments the generated labels are made of
Words ==
    { <<"S","p","i","r","a","l"," ">>, <<"g","a","l","a","x","y">>,
      <<"N","E","B","U","L","A">>, <<"C","l","u","s","t","e","r">>,
      <<"c","l","o","u","d">>, <<"g","a","l">>, <<"a","x","y"," ">>,
      <<" ","w","i","t","h"," ">> }

RECURSIVE WordSeqs(_)
WordSeqs(n) ==
    IF n = 0 THEN {<<>>}
    ELSE LET shorter == WordSeqs(n - 1)
         IN  shorter \cup {Append(ws, w) : ws \in {x \in shorter : Len(x) = n - 1}, w \in Words}

GeneratedLabels == {Concat(ws) : ws \in WordSeqs(MaxWords)}

KnownLabels ==
    {YOUR_OBJECT_TYPES[i] : i \in 1..Len(YOUR_OBJECT_TYPES)}
    \cup {DefaultLabel, <<"N","e","b","u","l","a">>, <<"U","n","k","n","o","w","n">>,
          <<"Q","u","a","s","a","r">>, <<"D","o","u","b","l","e"," ","s","t","a","r">>}

Labels == GeneratedLabels \cup KnownLabels
         \cup {Upper(l) : l \in KnownLabels} \cup {Lower(l) : l \in KnownLabels}

ObjTypeValues ==
    {StrV(l) : l \in Labels} \cup {NoneV, NaNV} \cup {IntV(n) : n \in {0, 7, 42, 110}}

NoCall == [ret |-> [k |-> "fin", v |-> 0], raised |-> "", warned |-> FALSE]
NoSrc == [form |-> "none", sign |-> <<>>, comps |-> <<>>]

\* the coordinate parser is not in use
CoordIdle ==
    /\ coord_src = NoSrc
    /\ coord_in = NoneV
    /\ coord_out = NoCall

NoTable == [kind |-> "None", source |-> "", rows |-> <<>>]
NoLoad == [ret |-> NoTable, raised |-> "", log |-> <<>>]

\* the data loader is not in use
LoadIdle ==
    /\ load_args = [caller |-> "", csv_path |-> "", use_astronomical_data |-> FALSE]
    /\ load_env = [files |-> <<>>, imports_ok |-> FALSE, simbad_ok |-> FALSE, simbad_found |-> {}]
    /\ load_out = NoLoad

NoProc == [before |-> <<>>, ret |-> <<>>, invalid_count |-> 0, warned |-> FALSE]

ProcIdle == proc_in = <<>> /\ proc_out = NoProc

FilterIdle == filter_args = <<>> /\ filter_out = <<>>
NoCalls == [n |-> 0, kept |-> <<>>, last |-> <<>>]
ChartIdle == chart = <<>> /\ chart_log = NoCalls
UiIdle ==
    /\ messier_data = <<>> /\ filter_options = <<>> /\ props = <<>>
    /\ pending = {} /\ ui_events = 0 /\ loaded = <<>>
MainIdle == main_args = <<>> /\ main_env = <<>> /\ main_out = <<>>

\* the components after the loader are not in use
RestIdle ==
    /\ decimal = 0
    /\ ProcIdle
    /\ FilterIdle
    /\ ChartIdle
    /\ UiIdle
    /\ MainIdle

InitClassify ==
    /\ pc = "classify"
    /\ obj_type \in ObjTypeValues
    /\ categories = <<>>
    /\ style = NoStyle
    /\ trace_style = NoStyle
    /\ CoordIdle
    /\ LoadIdle
    /\ RestIdle

\* one call classify_object_type(obj_type)
Classify ==
    /\ pc = "classify"
    /\ Len(categories) < MaxCalls
    /\ categories' = Append(categories, classify_object_type(obj_type))
    /\ UNCHANGED <<pc, obj_type, style, trace_style, coordVars, loadVars, restVars>>

\* one call get_object_style(obj_type)
GetStyle ==
    /\ pc = "classify"
    /\ categories # <<>>
    /\ style' = get_object_style(obj_type)
    /\ pc' = "styled"
    /\ UNCHANGED <<obj_type, categories, trace_style, coordVars, loadVars, restVars>>

\* _add_messier_objects picks the style of the trace of obj_type
DrawTrace ==
    /\ pc = "styled"
    /\ ~IsNa(obj_type)
    /\ trace_style' = TraceStyle(obj_type)
    /\ pc' = "drawn"
    /\ UNCHANGED <<obj_type, categories, style, coordVars, loadVars, restVars>>

NextClassify == Classify \/ GetStyle \/ DrawTrace

SpecClassify == InitClassify /\ [][NextClassify]_vars

\* ---------------------------------------------------------------- classifier claims
Categories == {"Galaxy", "Nebula", "Cluster", "Other"}

\* C1: classify_object_type is total and idempotent: every call, on a string or
\* on a non-string value, returns one of Galaxy, Nebula, Cluster, Other, and
\* every later call on the same value returns what the first call returned.
C1_ClassifyTotalIdempotent ==
    \A i \in 1..Len(categories) :
        /\ categories[i] \in Categories
        /\ categories[i] = categories[1]

C1_Witness ==
    /\ Len(categories) >= 2
    /\ obj_type = NaNV
    /\ categories[2] = "Other"

KwGalaxy == <<"g","a","l","a","x","y">>
KwNebula == <<"n","e","b","u","l","a">>
KwCluster == <<"c","l","u","s","t","e","r">>
KwCloud == <<"c","l","o","u","d">>

\* the rule of the specification, on the text of a label
RefCategory(label) ==
    LET l == Lower(label)
    IN  IF Contains(l, KwGalaxy) THEN "Galaxy"
        ELSE IF Contains(l, KwNebula) THEN "Nebula"
        ELSE IF Contains(l, KwCluster) \/ Contains(l, KwCloud) THEN "Cluster"
        ELSE "Other"

NebulaWithCluster == <<"H"," ","I","I"," ","r","e","g","i","o","n"," ","n","e","b","u","l","a"," ","w","i","t","h"," ","c","l","u","s","t","e","r">>

\* C2: the category returned is the first of Galaxy, Nebula, Cluster with a
\* keyword (galaxy / nebula / cluster, cloud) occurring in the lower-cased
\* label, Other if none; a label with keywords of several categories gets the
\* earliest one, and the letter case of the label does not matter.
C2_ClassifyIsFirstMatch ==
    categories # <<>> =>
        /\ categories[1] = RefCategory(Str(obj_type))
        /\ classify_object_type(StrV(Upper(Str(obj_type)))) = categories[1]
        /\ classify_object_type(StrV(Lower(Str(obj_type)))) = categories[1]
        /\ (obj_type = StrV(NebulaWithCluster) => categories[1] = "Nebula")

C2_Witness ==
    /\ categories # <<>>
    /\ obj_type = StrV(Upper(NebulaWithCluster))
    /\ categories[1] = "Nebula"

SpiralGalaxy == <<"S","p","i","r","a","l"," ","g","a","l","a","x","y">>

\* C3: get_object_style returns the category classify_object_type returns,
\* size 8, and the symbol and color of the category's override entry keyed by
\* the lower-cased label when there is one, else the category's base symbol
\* and color; 'Spiral galaxy' is Galaxy, 'circle', '#FF6B6B'.
C3_StyleFromOverrideOrBase ==
    pc \in {"styled", "drawn"} =>
        LET key == Lower(Str(obj_type))
            cat == categories[1]
        IN  /\ style.category = cat
            /\ style.size = 8
            /\ style.symbol = IF key \in DOMAIN symbol_variations[cat]
                               THEN symbol_variations[cat][key]
                               ELSE OBJECT_CATEGORIES[cat].base_symbol
            /\ style.color = IF key \in DOMAIN color_variations[cat]
                              THEN color_variations[cat][key]
                              ELSE OBJECT_CATEGORIES[cat].base_color
            /\ (obj_type = StrV(SpiralGalaxy) =>
                    style = [symbol |-> "circle", color |-> "#FF6B6B",
                             size |-> 8, category |-> "Galaxy"])

C3_Witness ==
    /\ pc = "styled"
    /\ obj_type = StrV(<<"E","l","l","i","p","t","i","c","a","l"," ","g","a","l","a","x","y">>)
    /\ style.symbol = "circle-open"

OtherBaseStyle ==
    [symbol |-> "diamond", color |-> "#FFEAA7", size |-> 8, category |-> "Other"]

\* a label with no category keyword and no override entry
UnknownLabel(v) ==
    /\ v.kind = "str"
    /\ RefCategory(v.s) = "Other"
    /\ Lower(v.s) \notin DOMAIN color_variations["Other"]
    /\ Lower(v.s) \notin DOMAIN symbol_variations["Other"]

\* C4: a label with no category keyword and no override entry is classified
\* Other, styled with the Other base style (diamond, #FFEAA7, size 8) by
\* get_object_style, and drawn with that style by the chart assembler.
C4_UnknownLabelOtherStyle ==
    UnknownLabel(obj_type) =>
        /\ \A i \in 1..Len(categories) : categories[i] = "Other"
        /\ (pc \in {"styled", "drawn"} => style = OtherBaseStyle)
        /\ (pc = "drawn" => trace_style = OtherBaseStyle)

\* C25: the style the chart assembler uses for an object-type label equals
\* get_object_style of the label, whether or not the label is a key of
\* OBJECT_STYLES: symbol, color, size and category are the same.
C25_AssemblerStyleIsGetObjectStyle ==
    pc = "drawn" => trace_style = style

\* what holds of the code: the two styles agree for every label but 'Default'
C25_AgreeExceptOnDefault ==
    (pc = "drawn" /\ obj_type # StrV(DefaultLabel)) => trace_style = style

\* the label 'Default' was drawn with the fallback entry of OBJECT_STYLES
C25_DefaultDrawnWithFallback ==
    /\ pc = "drawn"
    /\ obj_type = StrV(DefaultLabel)
    /\ trace_style = DefaultStyle
    /\ style = OtherBaseStyle

SupernovaRemnant == <<"s","u","p","e","r","n","o","v","a"," ","r","e","m","n","a","n","t">>

\* the label, lower-cased, is a key of the override tables of the category
OverrideKey(v, category) ==
    /\ v.kind = "str"
    /\ Lower(v.s) \in DOMAIN symbol_variations[category]
    /\ Lower(v.s) \in DOMAIN color_variations[category]

\* get_object_style returned the override symbol and color of the category
StyledByOverride(v, category) ==
    /\ categories[1] = category
    /\ style.category = category
    /\ style.symbol = symbol_variations[category][Lower(v.s)]
    /\ style.color = color_variations[category][Lower(v.s)]

\* C26: every specific-label override is reachable: a label that is a key of
\* the color and symbol override tables of a category is classified into that
\* category, and get_object_style on it returns the override symbol and color
\* listed for it ('Supernova remnant': Nebula, 'triangle-up', '#C66EC6').
C26_OverridesReachable ==
    pc \in {"styled", "drawn"} =>
        \A category \in Categories :
            OverrideKey(obj_type, category) => StyledByOverride(obj_type, category)

\* what holds of the code: every override but 'supernova remnant' is reached
C26_ReachableExceptSupernovaRemnant ==
    (pc \in {"styled", "drawn"} /\ Lower(Str(obj_type)) # SupernovaRemnant) =>
        \A category \in Categories :
            OverrideKey(obj_type, category) => StyledByOverride(obj_type, category)

\* 'Supernova remnant', a key of the Nebula tables, was classified Other and
\* styled with the Other base style
C26_SupernovaRemnantIsOther ==
    /\ pc = "styled"
    /\ obj_type = StrV(YOUR_OBJECT_TYPES[1])
    /\ OverrideKey(obj_type, "Nebula")
    /\ categories[1] = "Other"
    /\ style = OtherBaseStyle

\* ---------------------------------------------------------------- data_utils.py: parser
\* Numbers are kept exactly, as integers counting 1/Scale: a component 31.9 is
\* 319 with Scale 10, and a coordinate counts 1/(3600 * Scale) of a degree.
RECURSIVE Pow10(_)
Pow10(n) == IF n = 0 THEN 1 ELSE 10 * Pow10(n - 1)

Scale == Pow10(FracDigits)
Degree == 3600 * Scale

\* a Python float: finite, nan, or inf with its sign in v
Fin(x) == [k |-> "fin", v |-> x]
NaNF == [k |-> "nan", v |-> 0]
InfF == [k |-> "inf", v |-> 1]

\* a + b
FAdd(a, b) ==
    IF a.k = "nan" \/ b.k = "nan" THEN NaNF
    ELSE IF a.k = "inf" /\ b.k = "inf" THEN (IF a.v = b.v THEN a ELSE NaNF)
    ELSE IF a.k = "inf" THEN a
    ELSE IF b.k = "inf" THEN b
    ELSE Fin(a.v + b.v)

\* a * n for a non-zero integer n
FMul(a, n) ==
    IF a.k = "nan" THEN NaNF
    ELSE IF a.k = "inf" THEN [k |-> "inf", v |-> IF n > 0 THEN a.v ELSE -a.v]
    ELSE Fin(a.v * n)

\* the outcome of evaluating an expression: a value, or the exception raised
Ok(x) == [exc |-> "", val |-> x]
Raise(e) == [exc |-> e, val |-> Fin(0)]

IsDigit(c) == \E i \in 1..10 : DigitChars[i] = c
DigitVal(c) == (CHOOSE i \in 1..10 : DigitChars[i] = c) - 1
AllDigits(s) == \A i \in 1..Len(s) : IsDigit(s[i])

RECURSIVE NatVal(_)
NatVal(s) ==
    IF s = <<>> THEN 0
    ELSE 10 * NatVal(SubSeq(s, 1, Len(s) - 1)) + DigitVal(s[Len(s)])

\* the digits after the point, counted in 1/Scale
FracVal(s) ==
    NatVal(SubSeq(s \o [i \in 1..FracDigits |-> "0"], 1, FracDigits))

\* float(text) of an unsigned literal: digits with at most one point, or one
\* of the words nan, inf, infinity in any letter case
FloatUnsigned(s) ==
    IF Lower(s) = <<"n","a","n">> THEN Ok(NaNF)
    ELSE IF Lower(s) \in {<<"i","n","f">>, <<"i","n","f","i","n","i","t","y">>} THEN Ok(InfF)
    ELSE LET dots == {i \in 1..Len(s) : s[i] = "."}
         IN  IF Cardinality(dots) > 1 THEN Raise("ValueError")
             ELSE LET d == IF dots = {} THEN Len(s) + 1 ELSE CHOOSE i \in dots : TRUE
                      ip == SubSeq(s, 1, d - 1)
                      fp == SubSeq(s, d + 1, Len(s))
                  IN  IF AllDigits(ip) /\ AllDigits(fp) /\ Len(ip) + Len(fp) > 0
                      THEN Ok(Fin(NatVal(ip) * Scale + FracVal(fp)))
                      ELSE Raise("ValueError")

\* float(text): an optional ASCII sign, then an unsigned literal
Float(s) ==
    IF s # <<>> /\ s[1] \in {"+", "-"}
    THEN LET r == FloatUnsigned(Tail(s))
         IN  IF r.exc = "" /\ s[1] = "-" THEN Ok(FMul(r.val, -1)) ELSE r
    ELSE FloatUnsigned(s)

\* str.replace(c, '') for each character c of a set
RemoveChars(s, cs) == SelectSeq(s, LAMBDA x : x \notin cs)

IsSpace(c) == c \in {" ", "tab"}

RECURSIVE SplitFrom(_, _, _)
SplitFrom(s, cur, acc) ==
    IF s = <<>> THEN (IF cur = <<>> THEN acc ELSE Append(acc, cur))
    ELSE IF IsSpace(Head(s))
         THEN SplitFrom(Tail(s), <<>>, IF cur = <<>> THEN acc ELSE Append(acc, cur))
         ELSE SplitFrom(Tail(s), Append(cur, Head(s)), acc)

\* str.split()
Split(s) == SplitFrom(s, <<>>, <<>>)

\* str.lstrip(chars)
RECURSIVE LStrip(_, _)
LStrip(s, cs) == IF s # <<>> /\ Head(s) \in cs THEN LStrip(Tail(s), cs) ELSE s

\* the first of three outcomes that raised, else the value of the sum
Combine(a, b, c, total) ==
    IF a.exc # "" THEN a
    ELSE IF b.exc # "" THEN b
    ELSE IF c.exc # "" THEN c
    ELSE Ok(total)

\* (a + b/60 + c/3600), counted in 1/(3600 * Scale)
Sexagesimal(a, b, c) == FAdd(FAdd(FMul(a, 3600), FMul(b, 60)), c)

\* line 26 with the seconds divided by 60 instead of 3600
RaValue_SecondsOver60(hours, minutes, seconds) ==
    FMul(FAdd(FAdd(FMul(hours, 3600), FMul(minutes, 60)), FMul(seconds, 60)), 15)

\* line 26 without the conversion of hours to degrees
RaValue_NoTimes15(hours, minutes, seconds) == Sexagesimal(hours, minutes, seconds)

\* (hours + minutes/60 + seconds/3600) * 15
RaValue(hours, minutes, seconds) == FMul(Sexagesimal(hours, minutes, seconds), 15)

\* line 47 with the sign put on the degrees alone
DecValue_SignOnDegrees(sign, degrees, minutes, seconds) ==
    Sexagesimal(FMul(degrees, sign), minutes, seconds)

\* sign * (degrees + minutes/60 + seconds/3600)
DecValue(sign, degrees, minutes, seconds) ==
    FMul(Sexagesimal(degrees, minutes, seconds), sign)

\* the try block of ra_to_degrees
ra_try(v) ==
    IF v.kind # "str" THEN Raise("TypeError")     \* 'h' in ra_str
    ELSE LET hm == Contains(v.s, <<"h">>) /\ Contains(v.s, <<"m">>)
             parts == IF hm THEN Split(RemoveChars(v.s, {"h", "m", "s"}))
                      ELSE Split(v.s)
             hours == IF Len(parts) > 0 THEN Float(parts[1]) ELSE Raise("IndexError")
             minutes == IF Len(parts) > 1 THEN Float(parts[2])
                        ELSE IF hm THEN Raise("IndexError") ELSE Ok(Fin(0))
             seconds == IF Len(parts) > 2 THEN Float(parts[3]) ELSE Ok(Fin(0))
         IN  Combine(hours, minutes, seconds,
                     RaValue(hours.val, minutes.val, seconds.val))

DecGlyphs == {"deg", "prime", "dprime", "apos", "quote"}

\* the try block of dec_to_degrees
dec_try(v) ==
    IF v.kind # "str" THEN Raise("AttributeError")     \* dec_str.replace
    ELSE LET dec_str == RemoveChars(v.s, DecGlyphs)
         IN  IF dec_str = <<>> THEN Raise("IndexError")     \* dec_str[0]
             ELSE LET sign == IF dec_str[1] \notin {"-", "uminus"} THEN 1 ELSE -1
                      parts == Split(LStrip(dec_str, {"+", "-", "uminus"}))
                      degrees == IF Len(parts) > 0 THEN Float(parts[1]) ELSE Raise("IndexError")
                      minutes == IF Len(parts) > 1 THEN Float(parts[2]) ELSE Ok(Fin(0))
                      seconds == IF Len(parts) > 2 THEN Float(parts[3]) ELSE Ok(Fin(0))
                  IN  Combine(degrees, minutes, seconds,
                              DecValue(sign, degrees.val, minutes.val, seconds.val))

\* "except Exception" catching ValueError alone
SoftFail_OnlyValueError(r) ==
    IF r.exc = "" THEN [ret |-> r.val, raised |-> "", warned |-> FALSE]
    ELSE IF r.exc = "ValueError" THEN [ret |-> Fin(0), raised |-> "", warned |-> TRUE]
    ELSE [ret |-> Fin(0), raised |-> r.exc, warned |-> FALSE]

\* try: ... except Exception as e: print(...); return 0
SoftFail(r) ==
    IF r.exc = "" THEN [ret |-> r.val, raised |-> "", warned |-> FALSE]
    ELSE [ret |-> Fin(0), raised |-> "", warned |-> TRUE]

ra_to_degrees(v) == SoftFail(ra_try(v))
dec_to_degrees(v) == SoftFail(dec_try(v))

\* ---------------------------------------------------------------- parser driver
\* A component as it is written in a coordinate text, with what the writer
\* meant by it: cls "num" and its value counted in 1/Scale, or a word float()
\* reads as nan or inf, or text that is no number.
Two(n) == IF n < 10 THEN <<"0">> \o IntStr(n) ELSE IntStr(n)
Num(n) == [txt |-> Two(n), cls |-> "num", num |-> n * Scale]
NumFrac(n, d) == [txt |-> Two(n) \o <<".", DigitChars[d + 1]>>, cls |-> "num",
                  num |-> n * Scale + d * (Scale \div 10)]
Word(t, c) == [txt |-> t, cls |-> c, num |-> 0]

NotNumbers ==
    { Word(<<"x","x">>, "bad"), Word(<<"3","x">>, "bad"), Word(<<"1",".","2",".","3">>, "bad"),
      Word(<<"n","a","n">>, "nan"), Word(<<"I","n","f">>, "inf") }

HourComps == {Num(n) : n \in 0..MaxHour} \cup NotNumbers
DegreeComps == {Num(n) : n \in {0, 5, 11, 22, 69, 89, 90, 91}} \cup NotNumbers
MinuteComps == {Num(n) : n \in {0, 23, 34, 59}} \cup {Word(<<"x","x">>, "bad")}
SecondComps == {Num(n) : n \in {0, 31, 52, 59}} \cup {NumFrac(31, 9), NumFrac(59, 9)}
               \cup {Word(<<"3","x">>, "bad")}

\* the component lists of a text: none, the first only, the first two, all three
CompLists(firsts) ==
    {<<>>} \cup {<<a>> : a \in firsts}
    \cup {<<a, b>> : a \in firsts, b \in MinuteComps}
    \cup {<<a, b, c>> : a \in firsts, b \in MinuteComps, c \in SecondComps}

RECURSIVE Join(_, _, _)
\* the components, each followed by its unit mark, separated by sep
Join(comps, marks, sep) ==
    IF comps = <<>> THEN <<>>
    ELSE Head(comps).txt \o Head(marks)
         \o (IF Len(comps) > 1 THEN sep ELSE <<>>)
         \o Join(Tail(comps), Tail(marks), sep)

\* the text of a coordinate written in a form
CoordText(src) ==
    CASE src.form = "hms" ->
            Join(src.comps, << <<"h">>, <<"m">>, <<"s">> >>, <<" ">>)
      [] src.form = "spaced" ->
            Join(src.comps, << <<>>, <<>>, <<>> >>, <<" ">>)
      [] src.form = "hms_tight" ->
            Join(src.comps, << <<"h">>, <<"m">>, <<"s">> >>, <<>>)
      [] src.form = "dms" ->
            src.sign \o Join(src.comps, << <<"deg">>, <<"prime">>, <<"dprime">> >>, <<" ">>)
      [] src.form = "dms_ascii" ->
            src.sign \o Join(src.comps, << <<"deg">>, <<"apos">>, <<"quote">> >>, <<" ">>)

RaForms == {"hms", "spaced", "hms_tight"}
DecForms == {"dms", "dms_ascii"}
Signs == {<<>>, <<"+">>, <<"-">>, <<"uminus">>}

RaSources ==
    {[form |-> f, sign |-> <<>>, comps |-> cs] : f \in RaForms, cs \in CompLists(HourComps)}
DecSources ==
    {[form |-> f, sign |-> sg, comps |-> cs] :
        f \in DecForms, sg \in Signs, cs \in CompLists(DegreeComps)}

\* values of a table cell that are no text
NonTexts == {NoneV, NaNV, IntV(5)}

ClassIdle ==
    /\ obj_type = NoneV
    /\ categories = <<>>
    /\ style = NoStyle
    /\ trace_style = NoStyle

InitCoord ==
    /\ ClassIdle
    /\ LoadIdle
    /\ RestIdle
    /\ coord_out = NoCall
    /\ \/ /\ pc = "ra"
          /\ \/ coord_src \in RaSources /\ coord_in = StrV(CoordText(coord_src))
             \/ coord_src = NoSrc /\ coord_in \in NonTexts
       \/ /\ pc = "dec"
          /\ \/ coord_src \in DecSources /\ coord_in = StrV(CoordText(coord_src))
             \/ coord_src = NoSrc /\ coord_in \in NonTexts

\* one call ra_to_degrees(coord_in)
RaToDegrees ==
    /\ pc = "ra"
    /\ coord_out' = ra_to_degrees(coord_in)
    /\ pc' = "ra_done"
    /\ UNCHANGED <<classVars, coord_src, coord_in, loadVars, restVars>>

\* one call dec_to_degrees(coord_in)
DecToDegrees ==
    /\ pc = "dec"
    /\ coord_out' = dec_to_degrees(coord_in)
    /\ pc' = "dec_done"
    /\ UNCHANGED <<classVars, coord_src, coord_in, loadVars, restVars>>

NextCoord == RaToDegrees \/ DecToDegrees

SpecCoord == InitCoord /\ [][NextCoord]_vars

\* ---------------------------------------------------------------- parser claims
AllNumbers(comps) == \A i \in 1..Len(comps) : comps[i].cls = "num"

\* the i-th component as written, 0 when it is not written
CompNum(comps, i) == IF i <= Len(comps) THEN comps[i].num ELSE 0

\* a + b/60 + c/3600 of the components as written, counted in 1/(3600 * Scale)
Written(comps) ==
    CompNum(comps, 1) * 3600 + CompNum(comps, 2) * 60 + CompNum(comps, 3)

Negative(src) == src.sign \in {<<"-">>, <<"uminus">>}

\* a valid RA text: hours 0..23, minutes 0..59, seconds below 60
ValidRa(src) ==
    /\ src.form \in {"hms", "spaced"}
    /\ Len(src.comps) = 3
    /\ AllNumbers(src.comps)
    /\ src.comps[1].num <= 23 * Scale
    /\ src.comps[2].num <= 59 * Scale
    /\ src.comps[3].num < 60 * Scale

\* C5: for every valid sexagesimal RA text, in the 'HHh MMm SSs' form or the
\* space-separated form, ra_to_degrees returns a value in [0, 360].
C5_RaInRange ==
    (pc = "ra_done" /\ ValidRa(coord_src)) =>
        /\ coord_out.raised = ""
        /\ coord_out.ret.k = "fin"
        /\ coord_out.ret.v >= 0
        /\ coord_out.ret.v <= 360 * Degree

C5_Witness ==
    /\ pc = "ra_done"
    /\ ValidRa(coord_src)
    /\ coord_src.comps[1].num = 23 * Scale
    /\ coord_src.comps[2].num = 59 * Scale
    /\ coord_src.comps[3].num > 59 * Scale
    /\ coord_out.ret.v > 359 * Degree

\* a valid Dec text: minutes 0..59, seconds below 60, magnitude at most 90 degrees
ValidDec(src) ==
    /\ src.form \in DecForms
    /\ Len(src.comps) = 3
    /\ AllNumbers(src.comps)
    /\ src.comps[2].num <= 59 * Scale
    /\ src.comps[3].num < 60 * Scale
    /\ Written(src.comps) <= 90 * Degree

\* C6: for every valid Dec text, dec_to_degrees returns a value in [-90, 90]
\* whose sign is the sign written: minus the whole degrees + minutes + seconds
\* magnitude under an ASCII or Unicode minus, the magnitude itself under '+'
\* or no sign.
C6_DecInRangeSigned ==
    (pc = "dec_done" /\ ValidDec(coord_src)) =>
        /\ coord_out.raised = ""
        /\ coord_out.ret.k = "fin"
        /\ coord_out.ret.v >= -(90 * Degree)
        /\ coord_out.ret.v <= 90 * Degree
        /\ (Negative(coord_src) =>
                /\ coord_out.ret.v = -Written(coord_src.comps)
                /\ (Written(coord_src.comps) > 0 => coord_out.ret.v < 0))
        /\ (~Negative(coord_src) =>
                /\ coord_out.ret.v = Written(coord_src.comps)
                /\ coord_out.ret.v >= 0)

C6_Witness ==
    /\ pc = "dec_done"
    /\ ValidDec(coord_src)
    /\ coord_src.sign = <<"uminus">>
    /\ coord_src.comps[1].num = 5 * Scale
    /\ coord_src.comps[2].num = 23 * Scale
    /\ coord_out.ret.v < -(5 * Degree)

\* malformed as the claim lists it: no text, no component, a component that
\* is no number, or a component missing
MalformedAsClaimed ==
    \/ coord_in.kind # "str"
    \/ Len(coord_src.comps) < 3
    \/ ~AllNumbers(coord_src.comps)

\* C7 as stated: for every malformed input (empty text, non-numeric
\* components, missing components, a non-string value) the parser returns 0
\* and raises nothing.
C7_MalformedGivesZero ==
    (pc \in {"ra_done", "dec_done"} /\ MalformedAsClaimed) =>
        /\ coord_out.raised = ""
        /\ coord_out.ret = Fin(0)

\* input the parser gives up on: no text, no component, a component float()
\* rejects, an 'h' text without its minutes, or components run together
Rejected ==
    \/ coord_in.kind # "str"
    \/ coord_src.comps = <<>>
    \/ \E i \in 1..Len(coord_src.comps) : coord_src.comps[i].cls = "bad"
    \/ coord_src.form = "hms" /\ Len(coord_src.comps) = 1
    \/ coord_src.form = "hms_tight"

\* text whose leading components are numbers and whose trailing ones are missing
TrailingMissing ==
    /\ coord_in.kind = "str"
    /\ coord_src.form \in {"hms", "spaced", "dms", "dms_ascii"}
    /\ Len(coord_src.comps) \in {1, 2}
    /\ ~(coord_src.form = "hms" /\ Len(coord_src.comps) = 1)
    /\ AllNumbers(coord_src.comps)

\* C7 amended: the parser never raises; it returns 0 with a warning for a
\* non-string value, text without components, an 'h' text without minutes and
\* any component float() rejects; text whose trailing components are missing
\* is parsed with them counted as 0, without a warning.
C7_SoftFail ==
    pc \in {"ra_done", "dec_done"} =>
        /\ coord_out.raised = ""
        /\ (Rejected => coord_out.ret = Fin(0) /\ coord_out.warned)
        /\ (TrailingMissing =>
                /\ ~coord_out.warned
                /\ coord_out.ret =
                    Fin(IF pc = "ra_done" THEN 15 * Written(coord_src.comps)
                        ELSE IF Negative(coord_src) THEN -Written(coord_src.comps)
                        ELSE Written(coord_src.comps)))

C7_Witness ==
    /\ pc = "dec_done"
    /\ coord_in = NaNV
    /\ coord_out.warned
    /\ coord_out.ret = Fin(0)

\* a value in degrees rounded to four decimals, counted in 1/10000
Round4(v) ==
    (v \div Degree) * 10000 + (50 * (v % Degree) + 9 * Scale) \div (18 * Scale)

CrabRa == <<"0","5","h"," ","3","4","m"," ","3","1",".","9","s">>
CrabDec == <<"+","2","2","deg"," ","0","0","prime"," ","5","2","dprime">>

\* C8: an RA text 'Hh Mm Ss' gives (H + M/60 + S/3600) * 15 and a Dec text
\* with sign s gives s * (D + M/60 + S/3600); '05h 34m 31.9s' gives 83.6329
\* and '+22 deg 00 min 52 sec' gives 22.0144, to four decimals.
C8_SexagesimalValue ==
    /\ (pc = "ra_done" /\ coord_src.form = "hms" /\ Len(coord_src.comps) = 3
            /\ AllNumbers(coord_src.comps)) =>
          coord_out.ret = Fin(15 * Written(coord_src.comps))
    /\ (pc = "dec_done" /\ coord_src.form \in DecForms /\ Len(coord_src.comps) = 3
            /\ AllNumbers(coord_src.comps)) =>
          coord_out.ret = Fin(IF Negative(coord_src) THEN -Written(coord_src.comps)
                              ELSE Written(coord_src.comps))
    /\ (pc = "ra_done" /\ coord_in = StrV(CrabRa)) => Round4(coord_out.ret.v) = 836329
    /\ (pc = "dec_done" /\ coord_in = StrV(CrabDec)) => Round4(coord_out.ret.v) = 220144

C8_Witness ==
    /\ pc = "ra_done"
    /\ coord_in = StrV(CrabRa)
    /\ Round4(coord_out.ret.v) = 836329

\* ---------------------------------------------------------------- data_utils.py: loader
\* SAMPLE_MESSIER_DATA, a dict of columns (the columns the model reads)
SAMPLE_MESSIER_DATA ==
    [Number |-> <<31, 32, 1, 13, 42, 57, 27, 81, 51, 104>>,
     Messier_number |-> <<"M31", "M32", "M1", "M13", "M42", "M57", "M27", "M81", "M51", "M104">>,
     Object_type |->
         <<<<"S","p","i","r","a","l"," ","g","a","l","a","x","y">>,
           <<"D","w","a","r","f"," ","e","l","l","i","p","t","i","c","a","l"," ","g","a","l","a","x","y">>,
           <<"S","u","p","e","r","n","o","v","a"," ","r","e","m","n","a","n","t">>,
           <<"G","l","o","b","u","l","a","r"," ","c","l","u","s","t","e","r">>,
           <<"N","e","b","u","l","a">>,
           <<"P","l","a","n","e","t","a","r","y"," ","n","e","b","u","l","a">>,
           <<"P","l","a","n","e","t","a","r","y"," ","n","e","b","u","l","a">>,
           <<"S","p","i","r","a","l"," ","g","a","l","a","x","y">>,
           <<"S","p","i","r","a","l"," ","g","a","l","a","x","y">>,
           <<"S","p","i","r","a","l"," ","g","a","l","a","x","y">>>>,
     Constellation |-> <<"Andromeda", "Andromeda", "Taurus", "Hercules", "Orion", "Lyra", "Vulpecula", "Ursa Major", "Canes Venatici", "Virgo">>,
     Right_ascension |->
         <<<<"0","0","h"," ","4","2","m"," ","4","4",".","3","s">>,
           <<"0","0","h"," ","4","2","m"," ","4","1",".","8","s">>,
           <<"0","5","h"," ","3","4","m"," ","3","1",".","9","s">>,
           <<"1","6","h"," ","4","1","m"," ","4","1",".","2","s">>,
           <<"0","5","h"," ","3","5","m"," ","1","7",".","3","s">>,
           <<"1","8","h"," ","5","3","m"," ","3","5",".","1","s">>,
           <<"1","9","h"," ","5","9","m"," ","3","6",".","3","s">>,
           <<"0","9","h"," ","5","5","m"," ","3","3",".","2","s">>,
           <<"1","3","h"," ","2","9","m"," ","5","2",".","7","s">>,
           <<"1","2","h"," ","3","9","m"," ","5","9",".","4","s">>>>,
     Declination |->
         <<<<"+","4","1","deg"," ","1","6","prime"," ","0","9","dprime">>,
           <<"+","4","0","deg"," ","5","1","prime"," ","5","5","dprime">>,
           <<"+","2","2","deg"," ","0","0","prime"," ","5","2","dprime">>,
           <<"+","3","6","deg"," ","2","7","prime"," ","3","7","dprime">>,
           <<"-","0","5","deg"," ","2","3","prime"," ","1","3","dprime">>,
           <<"+","3","3","deg"," ","0","1","prime"," ","4","5","dprime">>,
           <<"+","2","2","deg"," ","4","3","prime"," ","1","6","dprime">>,
           <<"+","6","9","deg"," ","0","3","prime"," ","5","5","dprime">>,
           <<"+","4","7","deg"," ","1","1","prime"," ","4","3","dprime">>,
           <<"-","1","1","deg"," ","3","7","prime"," ","2","3","dprime">>>>,
     Best_Viewing |-> <<"autumn", "autumn", "winter", "summer", "winter", "summer", "summer", "spring", "spring", "spring">>]

\* pd.DataFrame(dict of columns): one row per index
DataFrame(cols, source) ==
    [kind |-> "DataFrame", source |-> source,
     rows |-> [i \in 1..Len(cols.Number) |->
                 [Number |-> cols.Number[i],
                  Messier_number |-> cols.Messier_number[i],
                  Object_type |-> cols.Object_type[i],
                  Constellation |-> cols.Constellation[i],
                  Right_ascension |-> cols.Right_ascension[i],
                  Declination |-> cols.Declination[i],
                  Best_Viewing |-> cols.Best_Viewing[i]]]]

\* the Messier numbers of the objects create_complete_messier_catalog lists
CatalogNumbers ==
    <<1, 8, 13, 16, 17, 20, 24, 27, 31, 32, 42, 43, 44, 45, 51, 57, 81, 87, 104, 110>>

\* the length a catalog must exceed to be accepted
CatalogThreshold == 50

\* load_messier_from_simbad: None when astroquery cannot be imported or no
\* query succeeds, else the list of the objects found
load_messier_from_simbad(env) ==
    IF ~env.simbad_ok \/ env.simbad_found = {} THEN NoTable
    ELSE [kind |-> "list", source |-> "simbad",
          rows |-> [i \in 1..Cardinality(env.simbad_found) |->
                      [Number |-> CHOOSE n \in env.simbad_found :
                          Cardinality({k \in env.simbad_found : k < n}) = i - 1]]]

\* load_messier_from_astropy: the built-in catalog when the imports succeed
\* and it is long enough, else whatever load_messier_from_simbad returns
load_messier_from_astropy(env) ==
    IF env.imports_ok /\ Len(CatalogNumbers) > CatalogThreshold
    THEN [kind |-> "DataFrame", source |-> "catalog",
          rows |-> [i \in 1..Len(CatalogNumbers) |-> [Number |-> CatalogNumbers[i]]]]
    ELSE load_messier_from_simbad(env)

DefaultCsv == "Messier_data.csv"

\* pd.read_csv(path): the table of the file, or the exception raised
read_csv(env, path) ==
    LET f == env.files[path]
    IN  CASE f.st = "ok" -> [exc |-> "", table |-> f.table]
          [] f.st = "missing" -> [exc |-> "FileNotFoundError", table |-> NoTable]
          [] f.st = "unreadable" -> [exc |-> "Exception", table |-> NoTable]

\* the CSV step of load_messier_data, lines 189-208
LoadCsvOrSample(args, env, log) ==
    LET csv_path == IF args.csv_path = "" THEN DefaultCsv ELSE args.csv_path
        r == read_csv(env, csv_path)
    IN  IF r.exc = ""
        THEN [ret |-> r.table, raised |-> "", log |-> Append(log, "csv")]
        ELSE [ret |-> DataFrame(SAMPLE_MESSIER_DATA, "sample"), raised |-> "",
              log |-> log \o <<"csv failed", "sample">>]

\* the CSV step with the handler of FileNotFoundError alone
LoadCsvOrSample_OnlyNotFound(args, env, log) ==
    LET csv_path == IF args.csv_path = "" THEN DefaultCsv ELSE args.csv_path
        r == read_csv(env, csv_path)
    IN  IF r.exc = ""
        THEN [ret |-> r.table, raised |-> "", log |-> Append(log, "csv")]
        ELSE IF r.exc = "FileNotFoundError"
        THEN [ret |-> DataFrame(SAMPLE_MESSIER_DATA, "sample"), raised |-> "",
              log |-> log \o <<"csv failed", "sample">>]
        ELSE [ret |-> NoTable, raised |-> r.exc, log |-> Append(log, "csv failed")]

\* load_messier_data reading the CSV before asking the astronomical source
load_messier_data_CsvFirst(args, env) ==
    LET csv_path == IF args.csv_path = "" THEN DefaultCsv ELSE args.csv_path
        r == read_csv(env, csv_path)
        astro_data == load_messier_from_astropy(env)
    IN  IF r.exc = ""
        THEN [ret |-> r.table, raised |-> "", log |-> <<"csv">>]
        ELSE IF args.use_astronomical_data /\ astro_data.kind # "None"
        THEN [ret |-> astro_data, raised |-> "", log |-> <<"csv failed", "astro">>]
        ELSE [ret |-> DataFrame(SAMPLE_MESSIER_DATA, "sample"), raised |-> "",
              log |-> <<"csv failed", "sample">>]

\* load_messier_data whose CSV step handles FileNotFoundError alone
load_messier_data_OnlyNotFound(args, env) ==
    LET astro_data == load_messier_from_astropy(env)
    IN  IF args.use_astronomical_data /\ astro_data.kind # "None"
        THEN [ret |-> astro_data, raised |-> "", log |-> <<"astro">>]
        ELSE LoadCsvOrSample_OnlyNotFound(args, env,
                 IF args.use_astronomical_data THEN <<"astro failed">> ELSE <<>>)

load_messier_data(args, env) ==
    LET astro_data == load_messier_from_astropy(env)
    IN  IF args.use_astronomical_data /\ astro_data.kind # "None"
        THEN [ret |-> astro_data, raised |-> "", log |-> <<"astro">>]
        ELSE LoadCsvOrSample(args, env,
                 IF args.use_astronomical_data THEN <<"astro failed">> ELSE <<>>)

\* ---------------------------------------------------------------- loader driver
ExplicitCsv == "my_catalog.csv"
Paths == {DefaultCsv, ExplicitCsv}

\* tables a CSV file on disk may hold
CsvTables ==
    { [kind |-> "DataFrame", source |-> "csv", rows |-> <<>>],
      [kind |-> "DataFrame", source |-> "csv",
       rows |-> << [Number |-> 45, Messier_number |-> "M45",
                    Object_type |-> <<"O","p","e","n"," ","c","l","u","s","t","e","r">>,
                    Constellation |-> "Taurus",
                    Right_ascension |-> <<"0","3","h"," ","4","7","m"," ","2","9","s">>,
                    Declination |-> <<"+","2","4","deg"," ","0","7","prime"," ","0","0","dprime">>,
                    Best_Viewing |-> "winter"] >>] }

FileStates ==
    {[st |-> "missing", table |-> NoTable], [st |-> "unreadable", table |-> NoTable]}
    \cup {[st |-> "ok", table |-> t] : t \in CsvTables}

LoadEnvs ==
    [files : [Paths -> FileStates], imports_ok : BOOLEAN, simbad_ok : BOOLEAN,
     simbad_found : SUBSET (1..SimbadQueries)]

\* create_app passes csv_path alone; a direct call chooses both arguments
LoadCalls ==
    {[caller |-> "create_app", csv_path |-> p, use_astronomical_data |-> FALSE] :
        p \in {"", ExplicitCsv}}
    \cup {[caller |-> "direct", csv_path |-> p, use_astronomical_data |-> u] :
        p \in {"", ExplicitCsv}, u \in BOOLEAN}

InitLoad ==
    /\ pc = "load"
    /\ ClassIdle
    /\ CoordIdle
    /\ RestIdle
    /\ load_args \in LoadCalls
    /\ load_env \in LoadEnvs
    /\ load_out = NoLoad

\* create_app: messier_data = load_messier_data(csv_path)
CreateAppLoad ==
    /\ pc = "load"
    /\ load_args.caller = "create_app"
    /\ load_out' = load_messier_data(
            [load_args EXCEPT !.use_astronomical_data = FALSE], load_env)
    /\ pc' = "loaded"
    /\ UNCHANGED <<classVars, coordVars, load_args, load_env, restVars>>

\* a call load_messier_data(csv_path, use_astronomical_data)
DirectLoad ==
    /\ pc = "load"
    /\ load_args.caller = "direct"
    /\ load_out' = load_messier_data(load_args, load_env)
    /\ pc' = "loaded"
    /\ UNCHANGED <<classVars, coordVars, load_args, load_env, restVars>>

NextLoad == CreateAppLoad \/ DirectLoad

SpecLoad == InitLoad /\ [][NextLoad]_vars

\* ---------------------------------------------------------------- loader claims
\* the file load_messier_data reads: the path given, else Messier_data.csv
TheFile == load_env.files[IF load_args.csv_path = "" THEN DefaultCsv ELSE load_args.csv_path]

\* the astronomical source is asked and delivers a table
ServiceDelivers ==
    /\ load_args.use_astronomical_data
    /\ load_env.simbad_ok
    /\ load_env.simbad_found # {}

\* C9 as stated: the table comes from the file when the file can be read,
\* else from the external service when it delivers, else from the sample.
C9_FileThenServiceThenSample ==
    pc = "loaded" =>
        /\ (TheFile.st = "ok" => load_out.ret.source = "csv")
        /\ (TheFile.st # "ok" /\ ServiceDelivers => load_out.ret.source = "simbad")
        /\ (TheFile.st # "ok" /\ ~ServiceDelivers => load_out.ret.source = "sample")

\* C9 amended: the astronomical source comes first and only when it is
\* requested, which create_app never does; then the CSV file at the path
\* given, or Messier_data.csv; then the embedded sample. A later source is
\* used only when every earlier one was not requested or delivered nothing.
C9_AstroThenCsvThenSample ==
    pc = "loaded" =>
        /\ load_out.raised = ""
        /\ (ServiceDelivers =>
                load_out.ret.source = "simbad" /\ load_out.log = <<"astro">>)
        /\ (~ServiceDelivers /\ TheFile.st = "ok" =>
                load_out.ret = TheFile.table)
        /\ (~ServiceDelivers /\ TheFile.st # "ok" =>
                load_out.ret = DataFrame(SAMPLE_MESSIER_DATA, "sample"))
        /\ (load_args.caller = "create_app" => load_out.ret.source \in {"csv", "sample"})

C9_Witness ==
    /\ pc = "loaded"
    /\ ServiceDelivers
    /\ TheFile.st = "ok"
    /\ load_args.csv_path = ExplicitCsv
    /\ load_out.ret.source = "simbad"

\* C10: when the CSV is read and the file is missing or cannot be read for
\* any other reason, load_messier_data raises nothing and returns the embedded
\* sample table of 10 objects; create_app always reads the CSV.
C10_CsvFailureGivesSample ==
    (pc = "loaded" /\ TheFile.st \in {"missing", "unreadable"}
        /\ (load_args.caller = "create_app" \/ ~ServiceDelivers)) =>
        /\ load_out.raised = ""
        /\ load_out.ret = DataFrame(SAMPLE_MESSIER_DATA, "sample")
        /\ Len(load_out.ret.rows) = 10
        /\ \E i \in 1..Len(load_out.log) : load_out.log[i] = "csv failed"

C10_Witness ==
    /\ pc = "loaded"
    /\ TheFile.st = "unreadable"
    /\ load_args.caller = "create_app"
    /\ load_out.ret.source = "sample"
    /\ Len(load_out.ret.rows) = 10

\* C30: when the astronomical source is requested and its imports succeed,
\* load_messier_from_astropy returns the built-in catalog as a table and asks
\* SIMBAD nothing; and whatever load_messier_data returns from the
\* astronomical source is a DataFrame, as from the CSV and the sample.
C30_AstroSourceGivesCatalogTable ==
    (pc = "loaded" /\ load_args.use_astronomical_data) =>
        /\ load_env.imports_ok =>
              /\ load_out.ret.kind = "DataFrame"
              /\ load_out.ret.source = "catalog"
        /\ load_out.log = <<"astro">> => load_out.ret.kind = "DataFrame"

\* what holds of the code: the built-in catalog, of 20 objects, is never
\* accepted; the astronomical source delivers the list SIMBAD gave or nothing
C30_AstroSourceIsSimbadList ==
    (pc = "loaded" /\ load_args.use_astronomical_data) =>
        /\ Len(CatalogNumbers) <= CatalogThreshold
        /\ load_out.ret.source # "catalog"
        /\ load_out.log = <<"astro">> <=> ServiceDelivers
        /\ load_out.log = <<"astro">> =>
              load_out.ret.kind = "list" /\ load_out.ret.source = "simbad"
        /\ load_out.log # <<"astro">> => load_out.ret.kind = "DataFrame"

\* the imports succeeded and SIMBAD answered: load_messier_data returned the
\* list of the objects SIMBAD found
C30_SimbadListReturned ==
    /\ pc = "loaded"
    /\ load_args.use_astronomical_data
    /\ load_env.imports_ok
    /\ load_env.simbad_ok
    /\ load_out.ret.kind = "list"
    /\ load_out.ret.source = "simbad"
    /\ Len(load_out.ret.rows) = SimbadQueries

(***************************************************************************)
(* data_utils.py: process_coordinates                                      *)
(***************************************************************************)

\* lines 219-220: one row's term of valid_coords; a comparison with nan is False
valid_coords(row) ==
    /\ row.ra_deg.k = "fin" /\ 0 <= row.ra_deg.v /\ row.ra_deg.v <= 360 * Degree
    /\ row.dec_deg.k = "fin" /\ -90 * Degree <= row.dec_deg.v /\ row.dec_deg.v <= 90 * Degree

\* lines 214-216: the two columns added to a row, its other columns kept
WithDegrees(row) ==
    [c \in DOMAIN row \cup {"ra_deg", "dec_deg"} |->
        CASE c = "ra_deg" -> ra_to_degrees(row.Right_ascension).ret
          [] c = "dec_deg" -> dec_to_degrees(row.Declination).ret
          [] OTHER -> row[c]]

\* process_coordinates without line 213: the columns are added to the caller's table
process_coordinates_NoCopy(data) ==
    LET out == [i \in 1..Len(data) |-> WithDegrees(data[i])]
        invalid == {i \in 1..Len(out) : ~valid_coords(out[i])}
    IN  [arg |-> out, ret |-> out,
         warned |-> invalid # {}, invalid_count |-> Cardinality(invalid)]

\* process_coordinates(data): arg is the caller's table after the call, ret the
\* table returned, warned whether line 224 printed, invalid_count the count printed
process_coordinates(data) ==
    LET out == [i \in 1..Len(data) |-> WithDegrees(data[i])]
        invalid == {i \in 1..Len(out) : ~valid_coords(out[i])}
    IN  [arg |-> data, ret |-> out,
         warned |-> invalid # {}, invalid_count |-> Cardinality(invalid)]

\* cells of the 'Right ascension' column: in range, 375 degrees, 360 degrees,
\* not a number, a missing value
RaCells ==
    {StrV(CrabRa),
     StrV(<<"2","5","h"," ","0","0","m"," ","0","0","s">>),
     StrV(<<"2","4","h"," ","0","0","m"," ","0","0","s">>),
     StrV(<<"n","a","n">>),
     NaNV}

\* cells of the 'Declination' column: in range, -91, -90, unparsable
DecCells ==
    {StrV(CrabDec), StrV(<<"-","9","1">>), StrV(<<"-","9","0">>), StrV(<<"x","x">>)}

\* the tables of at most MaxRows rows with these cells, numbered in row order
CoordTables ==
    UNION {[1..n -> [Right_ascension : RaCells, Declination : DecCells]] : n \in 0..MaxRows}

InitProcess ==
    /\ pc = "process"
    /\ ClassIdle
    /\ CoordIdle
    /\ LoadIdle
    /\ decimal = 0
    /\ FilterIdle
    /\ ChartIdle
    /\ UiIdle
    /\ MainIdle
    /\ \E t \in CoordTables :
          proc_in = [i \in 1..Len(t) |->
                        [Number |-> i, Right_ascension |-> t[i].Right_ascension,
                         Declination |-> t[i].Declination]]
    /\ proc_out = NoProc

\* a caller runs process_coordinates on its table
ProcessCoordinates ==
    /\ pc = "process"
    /\ LET r == process_coordinates(proc_in)
       IN  /\ proc_in' = r.arg
           /\ proc_out' = [before |-> proc_in, ret |-> r.ret,
                           invalid_count |-> r.invalid_count, warned |-> r.warned]
    /\ pc' = "processed"
    /\ UNCHANGED <<classVars, coordVars, loadVars, decimal, filterVars, chartVars, uiVars, mainVars>>

NextProcess == ProcessCoordinates

SpecProcess == InitProcess /\ [][NextProcess]_vars

\* the rows of the returned table whose coordinates are outside the ranges
OutOfRange ==
    {i \in 1..Len(proc_out.ret) :
        LET ra == proc_out.ret[i].ra_deg
            dec == proc_out.ret[i].dec_deg
        IN  ~(/\ ra.k = "fin" /\ ra.v >= 0 /\ ra.v <= 360 * Degree
              /\ dec.k = "fin" /\ dec.v >= -90 * Degree /\ dec.v <= 90 * Degree)}

\* C11: process_coordinates returns the rows of its table in the same order
\* with the columns ra_deg and dec_deg computed by the parser, keeps the rows
\* that are out of range, prints the warning exactly when at least one row is
\* out of range, with the number of such rows, and leaves the caller's table
\* as it was.
C11_ProcessFlagsKeepsRows ==
    pc = "processed" =>
        /\ Len(proc_out.ret) = Len(proc_out.before)
        /\ \A i \in 1..Len(proc_out.before) :
              LET old == proc_out.before[i]
                  new == proc_out.ret[i]
              IN  /\ DOMAIN new = DOMAIN old \cup {"ra_deg", "dec_deg"}
                  /\ \A c \in DOMAIN old : new[c] = old[c]
                  /\ new.ra_deg = ra_to_degrees(old.Right_ascension).ret
                  /\ new.dec_deg = dec_to_degrees(old.Declination).ret
        /\ proc_out.warned <=> OutOfRange # {}
        /\ proc_out.warned => proc_out.invalid_count = Cardinality(OutOfRange)
        /\ proc_in = proc_out.before

\* a table with a row in range and a row at 375 degrees was processed: both
\* rows were returned and the warning counted one
C11_Witness ==
    /\ pc = "processed"
    /\ Len(proc_out.ret) = 2
    /\ proc_out.ret[1].ra_deg = Fin(375 * Degree)
    /\ valid_coords(proc_out.ret[2])
    /\ proc_out.warned
    /\ proc_out.invalid_count = 1

(***************************************************************************)
(* Round trip of a coordinate through its sexagesimal text.  The program   *)
(* holds no formatter: the one below writes the forms the sample data      *)
(* uses, 'HHh MMm SSs' and '+DD° MM′ SS″'.                                 *)
(***************************************************************************)

\* a decimal RA of a whole number of seconds of time, written as 'HHh MMm SSs'
ra_from_degrees(x) ==
    LET t == x \div (15 * Scale)
    IN  [form |-> "hms", sign |-> <<>>,
         comps |-> <<Num(t \div 3600), Num((t % 3600) \div 60), Num(t % 60)>>]

\* a decimal Dec of a whole number of arcseconds, written as '+DD° MM′ SS″'
dec_from_degrees(x) ==
    LET a == (IF x < 0 THEN -x ELSE x) \div Scale
    IN  [form |-> "dms", sign |-> IF x < 0 THEN <<"-">> ELSE <<"+">>,
         comps |-> <<Num(a \div 3600), Num((a % 3600) \div 60), Num(a % 60)>>]

\* minutes and seconds of the decimals that are written
SixtyParts == {0, 1, 9, 10, 34, 59}

\* decimal RAs of whole seconds, in 1/(3600 * Scale) degree
RaDecimals ==
    {15 * Scale * (h * 3600 + m * 60 + sec) :
        h \in 0..(MaxHour - 1), m \in SixtyParts, sec \in SixtyParts}

\* decimal Decs of whole arcseconds, of both signs
DecDecimals ==
    {sg * Scale * (d * 3600 + m * 60 + sec) :
        sg \in {1, -1}, d \in {0, 1, 9, 22, 89, 90}, m \in SixtyParts, sec \in SixtyParts}

InitRoundTrip ==
    /\ ClassIdle
    /\ LoadIdle
    /\ ProcIdle
    /\ FilterIdle
    /\ ChartIdle
    /\ UiIdle
    /\ MainIdle
    /\ coord_src = NoSrc
    /\ coord_in = NoneV
    /\ coord_out = NoCall
    /\ \/ pc = "format_ra" /\ decimal \in RaDecimals
       \/ pc = "format_dec" /\ decimal \in DecDecimals

\* the decimal RA is written as text, ready to be parsed
FormatRa ==
    /\ pc = "format_ra"
    /\ coord_src' = ra_from_degrees(decimal)
    /\ coord_in' = StrV(CoordText(coord_src'))
    /\ pc' = "ra"
    /\ UNCHANGED <<classVars, coord_out, loadVars, decimal, procVars, filterVars, chartVars, uiVars, mainVars>>

\* the decimal Dec is written as text, ready to be parsed
FormatDec ==
    /\ pc = "format_dec"
    /\ coord_src' = dec_from_degrees(decimal)
    /\ coord_in' = StrV(CoordText(coord_src'))
    /\ pc' = "dec"
    /\ UNCHANGED <<classVars, coord_out, loadVars, decimal, procVars, filterVars, chartVars, uiVars, mainVars>>

NextRoundTrip == FormatRa \/ FormatDec \/ RaToDegrees \/ DecToDegrees

SpecRoundTrip == InitRoundTrip /\ [][NextRoundTrip]_vars

\* C18: a decimal RA of whole seconds with 0 <= h < 24, and a decimal Dec of
\* whole arcseconds with |value| <= 90, written as sexagesimal text and parsed
\* by ra_to_degrees / dec_to_degrees, comes back as the same decimal, without
\* a warning.
C18_RoundTrip ==
    /\ (pc = "ra_done" /\ 0 <= decimal /\ decimal < 360 * Degree)
          => coord_out = [ret |-> Fin(decimal), raised |-> "", warned |-> FALSE]
    /\ (pc = "dec_done" /\ -90 * Degree <= decimal /\ decimal <= 90 * Degree)
          => coord_out = [ret |-> Fin(decimal), raised |-> "", warned |-> FALSE]

\* the Dec of -0 deg 34' 59" went through text and came back
C18_Witness ==
    /\ pc = "dec_done"
    /\ decimal = -(34 * 60 + 59) * Scale
    /\ coord_in = StrV(<<"-","0","0","deg"," ","3","4","prime"," ","5","9","dprime">>)
    /\ coord_out.ret = Fin(decimal)

(***************************************************************************)
(* data_utils.py: filter_data                                              *)
(***************************************************************************)

\* the elements of a list
Range(seq) == {seq[i] : i \in 1..Len(seq)}

Orion == <<"O","r","i","o","n">>
Lyra == <<"L","y","r","a">>
Winter == <<"w","i","n","t","e","r">>
Summer == <<"s","u","m","m","e","r">>
OpenCluster == YOUR_OBJECT_TYPES[3]

\* filter_data with the season test left out
filter_data_NoSeason(data, selected_types, selected_constellations, selected_seasons) ==
    SelectSeq(data, LAMBDA row :
        /\ row.Object_type \in Range(selected_types)
        /\ row.Constellation \in Range(selected_constellations))

\* filter_data: the rows whose three cells are in the three lists (Series.isin),
\* as a new table; a missing cell is in a list only if the list holds nan
filter_data(data, selected_types, selected_constellations, selected_seasons) ==
    SelectSeq(data, LAMBDA row :
        /\ row.Object_type \in Range(selected_types)
        /\ row.Constellation \in Range(selected_constellations)
        /\ row.Best_Viewing \in Range(selected_seasons))

\* rows of a dataset: type, constellation and season cells, one of them missing
\* in some rows
FilterCells ==
    [Object_type : {StrV(SpiralGalaxy), StrV(OpenCluster), NaNV},
     Constellation : {StrV(Orion), StrV(Lyra)},
     Best_Viewing : {StrV(Winter), StrV(Summer)}]

\* the datasets of at most MaxRows rows, numbered in row order
FilterTables ==
    {[i \in 1..Len(t) |->
        [Number |-> i, Object_type |-> t[i].Object_type,
         Constellation |-> t[i].Constellation, Best_Viewing |-> t[i].Best_Viewing]] :
     t \in UNION {[1..n -> FilterCells] : n \in 0..MaxRows}}

\* the lists a caller selects with: empty, partial, full, with a value that is
\* no option
FilterCalls ==
    [data : FilterTables,
     selected_types : {<<>>, <<StrV(SpiralGalaxy)>>,
                       <<StrV(OpenCluster), StrV(SpiralGalaxy)>>,
                       <<StrV(SpiralGalaxy), NaNV>>},
     selected_constellations : {<<>>, <<StrV(Orion)>>, <<StrV(Orion), StrV(Lyra)>>},
     selected_seasons : {<<>>, <<StrV(Winter)>>, <<StrV(Summer), StrV(Winter)>>}]

InitFilter ==
    /\ pc = "filter"
    /\ ClassIdle
    /\ CoordIdle
    /\ LoadIdle
    /\ decimal = 0
    /\ ProcIdle
    /\ ChartIdle
    /\ UiIdle
    /\ MainIdle
    /\ filter_args \in FilterCalls
    /\ filter_out = <<>>

\* one call filter_data(data, selected_types, selected_constellations, selected_seasons)
FilterData ==
    /\ pc = "filter"
    /\ filter_out' = filter_data(filter_args.data, filter_args.selected_types,
                                 filter_args.selected_constellations,
                                 filter_args.selected_seasons)
    /\ pc' = "filtered"
    /\ UNCHANGED <<classVars, coordVars, loadVars, decimal, procVars, filter_args,
                   chartVars, uiVars, mainVars>>

NextFilter == FilterData

SpecFilter == InitFilter /\ [][NextFilter]_vars

\* the positions of the rows of the dataset that match all three selections
Matching ==
    {i \in 1..Len(filter_args.data) :
        /\ \E k \in 1..Len(filter_args.selected_types) :
              filter_args.selected_types[k] = filter_args.data[i].Object_type
        /\ \E k \in 1..Len(filter_args.selected_constellations) :
              filter_args.selected_constellations[k] = filter_args.data[i].Constellation
        /\ \E k \in 1..Len(filter_args.selected_seasons) :
              filter_args.selected_seasons[k] = filter_args.data[i].Best_Viewing}

\* C12: filter_data returns exactly the rows whose type, constellation and
\* season are each in the selected list, in the order of the dataset: its k-th
\* row is the k-th matching row; so every returned row's season is selected
\* and no more rows are returned than the dataset holds.
C12_FilterExactlyMatching ==
    pc = "filtered" =>
        /\ Len(filter_out) = Cardinality(Matching)
        /\ \A k \in 1..Len(filter_out) :
              \E i \in Matching :
                 /\ Cardinality({j \in Matching : j <= i}) = k
                 /\ filter_out[k] = filter_args.data[i]
        /\ \A k \in 1..Len(filter_out) :
              \E n \in 1..Len(filter_args.selected_seasons) :
                 filter_args.selected_seasons[n] = filter_out[k].Best_Viewing
        /\ Len(filter_out) <= Len(filter_args.data)

\* of two rows that differ in the season only, the winter one was returned
C12_Witness ==
    /\ pc = "filtered"
    /\ Len(filter_args.data) = 2
    /\ filter_args.data[1].Best_Viewing = StrV(Summer)
    /\ filter_args.data[2].Best_Viewing = StrV(Winter)
    /\ filter_args.data[1].Object_type = filter_args.data[2].Object_type
    /\ filter_args.data[1].Constellation = filter_args.data[2].Constellation
    /\ filter_args.selected_seasons = <<StrV(Winter)>>
    /\ filter_out = <<filter_args.data[2]>>

(***************************************************************************)
(* chart_generator.py: MessierSkyChart                                     *)
(***************************************************************************)

\* the characters of the labels in code-point order
CodePoints == <<" ", "(", ")">> \o DigitChars \o UpperLetters \o LowerLetters

\* Python's a < b on strings
StrLess(a, b) ==
    LET Ord(c) == CHOOSE i \in 1..Len(CodePoints) : CodePoints[i] = c
    IN  \E n \in 1..(Len(b)) :
           /\ \A j \in 1..(n - 1) : j <= Len(a) /\ a[j] = b[j]
           /\ \/ Len(a) = n - 1
              \/ Len(a) >= n /\ Ord(a[n]) < Ord(b[n])

RECURSIVE sorted_Desc(_)
\* sorted() that returns the strings from the greatest to the least
sorted_Desc(S) ==
    IF S = {} THEN <<>>
    ELSE LET greatest == CHOOSE a \in S : \A b \in S \ {a} : StrLess(b, a)
         IN  <<greatest>> \o sorted_Desc(S \ {greatest})

RECURSIVE sorted(_)
\* sorted() of distinct strings
sorted(S) ==
    IF S = {} THEN <<>>
    ELSE LET least == CHOOSE a \in S : \A b \in S \ {a} : StrLess(a, b)
         IN  <<least>> \o sorted(S \ {least})

\* a coordinate given in 1/1000 degree, as a number of the model
Deg(c) == Fin(c * (Degree \div 1000))

\* get_constellation_lines(): the first lines of its first two constellations
get_constellation_lines ==
    << [name |-> Orion,
        lines |-> << << <<84050, 1200>>, <<83820, -300>>, <<82060, -1200>> >>,
                     << <<88790, 7400>>, <<84050, 1200>> >>,
                     << <<88790, 7400>>, <<83820, -300>> >> >>,
        label_pos |-> <<83500, -1000>>,
        messier_objects |-> 3],
       [name |-> <<"U","r","s","a"," ","M","a","j","o","r">>,
        lines |-> << << <<165930, 61750>>, <<183860, 57030>> >>,
                     << <<183860, 57030>>, <<178460, 53690>> >> >>,
        label_pos |-> <<190000, 55000>>,
        messier_objects |-> 6] >>

\* get_constellation_labels()
get_constellation_labels ==
    [i \in 1..Len(get_constellation_lines) |->
        [name |-> get_constellation_lines[i].name,
         position |-> get_constellation_lines[i].label_pos,
         messier_count |-> get_constellation_lines[i].messier_objects]]

\* get_bright_stars(): its three brightest stars, brightest first
get_bright_stars ==
    << [name |-> <<"S","i","r","i","u","s">>, ra |-> 101287, dec |-> -16716],
       [name |-> <<"C","a","n","o","p","u","s">>, ra |-> 95988, dec |-> -52696],
       [name |-> <<"A","r","c","t","u","r","u","s">>, ra |-> 213915, dec |-> 19182] >>

\* MessierSkyChart(messier_data): the attributes __init__ sets
MessierSkyChart(data) ==
    [messier_data |-> data,
     bright_stars |-> get_bright_stars,
     constellation_lines |-> get_constellation_lines,
     constellation_labels |-> get_constellation_labels]

\* a go.Scatter trace, with the helper that added it
Scatter(layer, name, mode, x, y, text, marker, legendgroup) ==
    [layer |-> layer, name |-> name, mode |-> mode, x |-> x, y |-> y,
     text |-> text, marker |-> marker, legendgroup |-> legendgroup]

RECURSIVE add_constellation_lines(_)
\* _add_constellation_lines: the traces of the lines of the constellations cl
add_constellation_lines(cl) ==
    IF cl = <<>> THEN <<>>
    ELSE LET drawn == SelectSeq(Head(cl).lines, LAMBDA line : Len(line) >= 2)
         IN  [k \in 1..Len(drawn) |->
                Scatter("lines", Head(cl).name \o <<" ","l","i","n","e","s">>, "lines",
                        [p \in 1..Len(drawn[k]) |-> Deg(drawn[k][p][1])],
                        [p \in 1..Len(drawn[k]) |-> Deg(drawn[k][p][2])],
                        <<>>, [symbol |-> "", color |-> "rgba(128, 128, 128, 0.4)", size |-> 1],
                        "")]
             \o add_constellation_lines(Tail(cl))

\* _add_bright_stars with the names always shown
add_bright_stars_AlwaysText(stars, show_labels) ==
    << Scatter("stars", <<"B","r","i","g","h","t"," ","S","t","a","r","s">>, "markers+text",
               [i \in 1..Len(stars) |-> Deg(stars[i].ra)],
               [i \in 1..Len(stars) |-> Deg(stars[i].dec)],
               [i \in 1..Len(stars) |-> stars[i].name],
               [symbol |-> "star", color |-> "lightgray", size |-> 4], "") >>

\* _add_bright_stars: the one trace of the stars; text None is the empty list
add_bright_stars(stars, show_labels) ==
    << Scatter("stars", <<"B","r","i","g","h","t"," ","S","t","a","r","s">>,
               IF show_labels THEN "markers+text" ELSE "markers",
               [i \in 1..Len(stars) |-> Deg(stars[i].ra)],
               [i \in 1..Len(stars) |-> Deg(stars[i].dec)],
               IF show_labels THEN [i \in 1..Len(stars) |-> stars[i].name] ELSE <<>>,
               [symbol |-> "star", color |-> "lightgray", size |-> 4], "") >>

\* _add_constellation_labels: the one trace of the names
add_constellation_labels(labels) ==
    << Scatter("labels", <<"C","o","n","s","t","e","l","l","a","t","i","o","n"," ","L","a","b","e","l","s">>, "text",
               [i \in 1..Len(labels) |-> Deg(labels[i].position[1])],
               [i \in 1..Len(labels) |-> Deg(labels[i].position[2])],
               [i \in 1..Len(labels) |-> labels[i].name],
               [symbol |-> "", color |-> "rgba(200, 200, 200, 0.8)", size |-> 12], "") >>

\* _add_messier_objects: one trace per object type of the table that is not
\* missing, by category and sorted within the category
add_messier_objects(filtered_data) ==
    LET types == {filtered_data[i].Object_type : i \in 1..Len(filtered_data)}
        categorized_types == {<<classify_object_type(u), u.s>> : u \in {t \in types : ~IsNa(t)}}
        OfCategory(category) ==
            LET names == sorted({c[2] : c \in {d \in categorized_types : d[1] = category}})
            IN  [k \in 1..Len(names) |->
                   LET type_data == SelectSeq(filtered_data,
                                       LAMBDA row : row.Object_type = StrV(names[k]))
                       marker == TraceStyle(StrV(names[k]))
                   IN  Scatter("messier", names[k], "markers+text",
                               [i \in 1..Len(type_data) |-> type_data[i].ra_deg],
                               [i \in 1..Len(type_data) |-> type_data[i].dec_deg],
                               [i \in 1..Len(type_data) |-> type_data[i].Messier_number],
                               [symbol |-> marker.symbol, color |-> marker.color,
                                size |-> marker.size],
                               category)]
    IN  OfCategory("Galaxy") \o OfCategory("Nebula") \o OfCategory("Cluster")
        \o OfCategory("Other")

\* the filtered_data argument: None, or a table
NoTableGiven == [none |-> TRUE, rows |-> <<>>]
Table(rows) == [none |-> FALSE, rows |-> rows]

\* create_sky_chart with the stars added before the constellation lines
create_sky_chart_StarsFirst(self, filtered_data, show_star_labels, show_constellation_lines, show_constellation_labels) ==
    [self |-> self,
     fig |-> [data |->
                add_bright_stars(self.bright_stars, show_star_labels)
                \o (IF show_constellation_lines
                    THEN add_constellation_lines(self.constellation_lines) ELSE <<>>)
                \o (IF show_constellation_labels
                    THEN add_constellation_labels(self.constellation_labels) ELSE <<>>)
                \o add_messier_objects(IF filtered_data.none THEN self.messier_data
                                       ELSE filtered_data.rows),
              layout |-> "Interactive Messier Sky Chart"]]

\* create_sky_chart that keeps the table it was given as the chart's dataset
create_sky_chart_KeepsTable(self, filtered_data, show_star_labels, show_constellation_lines, show_constellation_labels) ==
    LET data == IF filtered_data.none THEN self.messier_data ELSE filtered_data.rows
    IN  [self |-> [self EXCEPT !.messier_data = data],
         fig |-> [data |->
                    (IF show_constellation_lines
                     THEN add_constellation_lines(self.constellation_lines) ELSE <<>>)
                    \o add_bright_stars(self.bright_stars, show_star_labels)
                    \o (IF show_constellation_labels
                        THEN add_constellation_labels(self.constellation_labels) ELSE <<>>)
                    \o add_messier_objects(data),
                  layout |-> "Interactive Messier Sky Chart"]]

\* create_sky_chart: the figure returned, and the chart object after the call
create_sky_chart(self, filtered_data, show_star_labels, show_constellation_lines, show_constellation_labels) ==
    LET data == IF filtered_data.none THEN self.messier_data ELSE filtered_data.rows
    IN  [self |-> self,
         fig |-> [data |->
                    (IF show_constellation_lines
                     THEN add_constellation_lines(self.constellation_lines) ELSE <<>>)
                    \o add_bright_stars(self.bright_stars, show_star_labels)
                    \o (IF show_constellation_labels
                        THEN add_constellation_labels(self.constellation_labels) ELSE <<>>)
                    \o add_messier_objects(data),
                  layout |-> "Interactive Messier Sky Chart"]]

\* ---------------------------------------------------------------- chart driver
\* a row of a CSV file
CsvRow(number, messier, type, constellation, season, ra, dec) ==
    [Number |-> number, Messier_number |-> messier, Object_type |-> type,
     Constellation |-> constellation, Best_Viewing |-> season,
     Right_ascension |-> StrV(ra), Declination |-> StrV(dec)]

\* the tables load_messier_data hands to create_app: three objects, of three
\* types, of two types, and with a missing type, constellation and season
Catalogs ==
    { << CsvRow(42, <<"M","4","2">>, t[1], StrV(Orion), t[2], <<"0","5","h"," ","3","5","m"," ","1","7",".","3","s">>, <<"-","0","5","deg"," ","2","3","prime"," ","1","3","dprime">>),
         CsvRow(57, <<"M","5","7">>, t[3], StrV(Lyra), StrV(Summer), <<"1","8","h"," ","5","3","m"," ","3","5",".","1","s">>, <<"+","3","3","deg"," ","0","1","prime"," ","4","5","dprime">>),
         CsvRow(56, <<"M","5","6">>, StrV(YOUR_OBJECT_TYPES[2]), t[4], StrV(Summer),
                <<"1","9","h"," ","1","6","m"," ","3","5",".","6","s">>, <<"+","3","0","deg"," ","1","1","prime"," ","0","0","dprime">>) >> :
      t \in { <<StrV(YOUR_OBJECT_TYPES[16]), StrV(Winter), StrV(YOUR_OBJECT_TYPES[7]), StrV(Lyra)>>,
              <<StrV(YOUR_OBJECT_TYPES[16]), StrV(Winter), StrV(YOUR_OBJECT_TYPES[16]), StrV(Lyra)>>,
              <<StrV(YOUR_OBJECT_TYPES[16]), NaNV, NaNV, NaNV>> } }

\* the arguments of a call: no table, the dataset, its first row, no row
ChartCalls(self) ==
    [filtered_data : {NoTableGiven, Table(self.messier_data),
                      Table(SubSeq(self.messier_data, 1, 1)), Table(<<>>)},
     show_star_labels : BOOLEAN,
     show_constellation_lines : BOOLEAN,
     show_constellation_labels : BOOLEAN]

InitChart ==
    /\ pc = "chart"
    /\ ClassIdle
    /\ CoordIdle
    /\ LoadIdle
    /\ decimal = 0
    /\ ProcIdle
    /\ FilterIdle
    /\ UiIdle
    /\ MainIdle
    /\ \E c \in Catalogs : chart = MessierSkyChart(process_coordinates(c).ret)
    /\ chart_log = NoCalls

\* one call of chart.create_sky_chart; the call is kept for comparison with
\* later ones when none is kept yet and keep is chosen
CreateSkyChart ==
    /\ pc = "chart"
    /\ chart_log.n < MaxChartCalls
    /\ \E args \in ChartCalls(chart),
          keep \in (IF chart_log.kept = <<>> THEN BOOLEAN ELSE {FALSE}) :
          \E r \in {create_sky_chart(chart, args.filtered_data, args.show_star_labels,
                                     args.show_constellation_lines,
                                     args.show_constellation_labels)} :
             \E call \in {[args |-> args, fig |-> r.fig, before |-> chart,
                            after |-> r.self]} :
                /\ chart' = r.self
                /\ chart_log' = [n |-> chart_log.n + 1,
                                 kept |-> IF keep THEN <<call>> ELSE chart_log.kept,
                                 last |-> <<call>>]
    /\ UNCHANGED <<pc, classVars, coordVars, loadVars, decimal, procVars, filterVars,
                   uiVars, mainVars>>

NextChart == CreateSkyChart

SpecChart == InitChart /\ [][NextChart]_vars

\* the place of a layer in the order the claim gives
LayerRank(layer) ==
    CASE layer = "lines" -> 1 [] layer = "stars" -> 2
      [] layer = "labels" -> 3 [] layer = "messier" -> 4

\* C13: in the figure create_sky_chart returns, the constellation line traces
\* come first, then the bright-star trace, then the constellation-label
\* trace, then the Messier object traces: no trace of a later layer precedes
\* a trace of an earlier one, whatever the flags and the table.
C13_LayerOrder ==
    \A c \in 1..Len(chart_log.last) :
        LET data == chart_log.last[c].fig.data
        IN  \A i, j \in 1..Len(data) :
               i < j => LayerRank(data[i].layer) <= LayerRank(data[j].layer)

\* a figure with all four layers was returned
C13_Witness ==
    /\ Len(chart_log.last) = 1
    /\ \A layer \in {"lines", "stars", "labels", "messier"} :
          \E i \in 1..Len(chart_log.last[1].fig.data) :
             chart_log.last[1].fig.data[i].layer = layer

\* C14: a call of create_sky_chart returns the figure an earlier call with the
\* same table and the same three flags returned, whatever calls were made in
\* between, and leaves the chart object's dataset, stars, constellation lines
\* and constellation labels as they were.
C14_StatelessDeterministic ==
    \A c \in 1..Len(chart_log.last) :
        /\ \A k \in 1..Len(chart_log.kept) :
              chart_log.kept[k].args = chart_log.last[c].args
                 => chart_log.kept[k].fig = chart_log.last[c].fig
        /\ chart_log.last[c].after = chart_log.last[c].before

\* the third call on a chart repeated the arguments of a kept earlier call
\* and returned the same figure
C14_Witness ==
    /\ chart_log.n = 3
    /\ Len(chart_log.kept) = 1
    /\ chart_log.kept[1].args = chart_log.last[1].args
    /\ chart_log.kept[1].args.filtered_data = NoTableGiven
    /\ chart_log.kept[1].fig = chart_log.last[1].fig
    /\ Len(chart_log.last[1].fig.data) > 2

\* the table a call of create_sky_chart draws: the one given, else the dataset
DrawnTable(call) ==
    IF call.args.filtered_data.none THEN call.before.messier_data
    ELSE call.args.filtered_data.rows

\* the place of a category in the order of the legend
CategoryRank(category) == CHOOSE i \in 1..Len(CategoryOrder) : CategoryOrder[i] = category

\* the Messier numbers of the rows of a table that have the given type label
NumbersOfType(rows, label) ==
    <<>> \o [i \in 1..Len(SelectSeq(rows, LAMBDA row : row.Object_type = StrV(label))) |->
               SelectSeq(rows, LAMBDA row : row.Object_type = StrV(label))[i].Messier_number]

\* the Messier traces of a figure partition the rows of the table it draws
PartitionsTable(traces, rows) ==
    /\ Len(traces) =
          Cardinality({rows[i].Object_type.s :
                          i \in {k \in 1..Len(rows) : ~IsNa(rows[k].Object_type)}})
    /\ {traces[i].name : i \in 1..Len(traces)} =
          {rows[i].Object_type.s : i \in {k \in 1..Len(rows) : ~IsNa(rows[k].Object_type)}}
    /\ \A i \in 1..Len(traces) :
          /\ traces[i].text = NumbersOfType(rows, traces[i].name)
          /\ traces[i].legendgroup = classify_object_type(StrV(traces[i].name))
    /\ \A i, j \in 1..Len(traces) :
          i < j =>
             \/ CategoryRank(traces[i].legendgroup) < CategoryRank(traces[j].legendgroup)
             \/ /\ traces[i].legendgroup = traces[j].legendgroup
                /\ StrLess(traces[i].name, traces[j].name)

\* C24: the Messier traces of the figure partition the table drawn: there is
\* exactly one trace per distinct object-type label of the table that is not
\* missing, the trace named after a label holds exactly the rows of that type
\* (so every row with a type is in exactly one trace), the traces come by
\* category Galaxy, Nebula, Cluster, Other and by label within a category,
\* and the legend group of a trace is classify_object_type of its label.
C24_TracesPartitionTable ==
    \A c \in 1..Len(chart_log.last) :
        PartitionsTable(SelectSeq(chart_log.last[c].fig.data,
                                  LAMBDA trace : trace.layer = "messier"),
                        DrawnTable(chart_log.last[c]))

\* a dataset of three objects was drawn in which two have the same type: two
\* traces, the nebula trace with its two objects before the cluster trace
C24_Witness ==
    /\ Len(chart_log.last) = 1
    /\ Len(DrawnTable(chart_log.last[1])) = 3
    /\ LET traces == SelectSeq(chart_log.last[1].fig.data,
                               LAMBDA trace : trace.layer = "messier")
       IN  /\ Len(traces) = 2
           /\ traces[1].legendgroup = "Nebula"
           /\ Len(traces[1].text) = 2
           /\ traces[2].legendgroup = "Cluster"
           /\ Len(traces[2].text) = 1

(***************************************************************************)
(* main.py: the script run as __main__                                     *)
(***************************************************************************)

\* an environment variable: unset, or set to a text
Unset == [set |-> FALSE, text |-> <<>>]
SetTo(text) == [set |-> TRUE, text |-> text]

\* lines 451-453: port, host and debug from the command line and the
\* environment; int() of a PORT that is no number raises ValueError
main_settings(args, env) ==
    LET port_given == env.PORT.set /\ env.PORT.text # <<>>     \* os.environ.get('PORT') is truthy
    IN  IF env.PORT.set /\ ~(env.PORT.text # <<>> /\ AllDigits(env.PORT.text))
        THEN [raised |-> "ValueError", port |-> 0, host |-> <<>>, debug |-> FALSE]
        ELSE [raised |-> "",
              port |-> IF env.PORT.set THEN NatVal(env.PORT.text) ELSE args.port,
              host |-> IF env.HOST.set THEN env.HOST.text
                       ELSE IF port_given THEN <<"0",".","0",".","0",".","0">> ELSE args.host,
              debug |-> args.debug /\ ~port_given]

Message(msg, detail) == [msg |-> msg, detail |-> detail]

\* the try statement with sys.exit(1) left out of the handler of Exception
main_try_NoExit(env, printed) ==
    LET failed == IF env.create_app.exc # "" THEN env.create_app ELSE env.run
        started == IF env.create_app.exc = ""
                   THEN Append(printed, Message("Starting server on", "")) ELSE printed
    IN  CASE failed.exc = "KeyboardInterrupt" ->
                [printed |-> Append(started, Message("Shutting down...", "")), status |-> 0]
          [] failed.exc = "Exception" ->
                [printed |-> Append(started, Message("Error: ", failed.detail)), status |-> 0]
          [] failed.exc = "SystemExit" -> [printed |-> started, status |-> failed.code]
          [] OTHER -> [printed |-> started, status |-> 0]

\* lines 460-468: create_app, then app.run, under the two handlers; what was
\* printed and the exit status of the process. An exception that is neither
\* an Exception nor a KeyboardInterrupt (SystemExit) passes through.
main_try(env, printed) ==
    LET failed == IF env.create_app.exc # "" THEN env.create_app ELSE env.run
        started == IF env.create_app.exc = ""
                   THEN Append(printed, Message("Starting server on", "")) ELSE printed
    IN  CASE failed.exc = "KeyboardInterrupt" ->
                [printed |-> Append(started, Message("Shutting down...", "")), status |-> 0]
          [] failed.exc = "Exception" ->
                [printed |-> Append(started, Message("Error: ", failed.detail)), status |-> 1]
          [] failed.exc = "SystemExit" -> [printed |-> started, status |-> failed.code]
          [] OTHER -> [printed |-> started, status |-> 0]

\* what create_app or app.run does: it returns, or raises
Outcomes ==
    {[exc |-> "", detail |-> "", code |-> 0],
     [exc |-> "Exception", detail |-> "Address already in use", code |-> 0],
     [exc |-> "KeyboardInterrupt", detail |-> "", code |-> 0],
     [exc |-> "SystemExit", detail |-> "", code |-> 1]}

MainArgs ==
    [csv : {""}, debug : BOOLEAN, port : {8050, 9000}, host : {<<"1","2","7",".","0",".","0",".","1">>, <<"l","o","c","a","l","h","o","s","t">>}]

MainEnvs ==
    [PORT : {Unset, SetTo(<<>>), SetTo(<<"1","0","0","0","0">>), SetTo(<<"h","t","t","p">>)},
     HOST : {Unset, SetTo(<<"0",".","0",".","0",".","0">>), SetTo(<<>>)},
     create_app : Outcomes,
     run : Outcomes]

NotStarted == [port |-> 0, host |-> <<>>, debug |-> FALSE, printed |-> <<>>, status |-> -1]

InitMain ==
    /\ pc = "main"
    /\ ClassIdle
    /\ CoordIdle
    /\ LoadIdle
    /\ decimal = 0
    /\ ProcIdle
    /\ FilterIdle
    /\ ChartIdle
    /\ UiIdle
    /\ main_args \in MainArgs
    /\ main_env \in MainEnvs
    /\ main_out = NotStarted

\* lines 451-457: the settings are computed and, without PORT, the usage
\* instructions printed; an uncaught ValueError ends the process with status 1
MainSettings ==
    /\ pc = "main"
    /\ LET r == main_settings(main_args, main_env)
       IN  IF r.raised # ""
           THEN /\ main_out' = [main_out EXCEPT !.printed = <<Message("Traceback", r.raised)>>,
                                                !.status = 1]
                /\ pc' = "uncaught"
           ELSE /\ main_out' = [main_out EXCEPT
                                  !.port = r.port, !.host = r.host, !.debug = r.debug,
                                  !.printed = IF main_env.PORT.set /\ main_env.PORT.text # <<>>
                                              THEN <<>> ELSE <<Message("usage", "")>>]
                /\ pc' = "try"
    /\ UNCHANGED <<classVars, coordVars, loadVars, decimal, procVars, filterVars, chartVars,
                   uiVars, main_args, main_env>>

\* lines 460-468: the app is created and run until the process ends
MainTry ==
    /\ pc = "try"
    /\ LET r == main_try(main_env, main_out.printed)
       IN  main_out' = [main_out EXCEPT !.printed = r.printed, !.status = r.status]
    /\ pc' = "exit"
    /\ UNCHANGED <<classVars, coordVars, loadVars, decimal, procVars, filterVars, chartVars,
                   uiVars, main_args, main_env>>

NextMain == MainSettings \/ MainTry

SpecMain == InitMain /\ [][NextMain]_vars

\* what the try statement met: the failure of create_app, else that of app.run
StartupFailure ==
    IF main_env.create_app.exc # "" THEN main_env.create_app ELSE main_env.run

\* C17: when create_app or app.run raises an Exception, the process prints
\* 'Error: <the exception>' last and ends with exit status 1; when a
\* KeyboardInterrupt reaches the script instead, it prints 'Shutting down...'
\* last, prints no error and ends with exit status 0.
C17_StartupFailureReported ==
    pc = "exit" =>
        /\ StartupFailure.exc = "Exception" =>
              /\ main_out.printed[Len(main_out.printed)]
                    = Message("Error: ", StartupFailure.detail)
              /\ main_out.status = 1
        /\ StartupFailure.exc = "KeyboardInterrupt" =>
              /\ main_out.printed[Len(main_out.printed)] = Message("Shutting down...", "")
              /\ \A i \in 1..Len(main_out.printed) : main_out.printed[i].msg # "Error: "
              /\ main_out.status = 0

\* create_app succeeded, app.run could not bind the port: the server start was
\* announced, then the error was printed and the process ended with status 1
C17_Witness ==
    /\ pc = "exit"
    /\ main_env.create_app.exc = ""
    /\ main_env.run.exc = "Exception"
    /\ Len(main_out.printed) >= 2
    /\ main_out.printed[Len(main_out.printed) - 1].msg = "Starting server on"
    /\ main_out.printed[Len(main_out.printed)] = Message("Error: ", "Address already in use")
    /\ main_out.status = 1

\* the settings the claim gives: PORT when set, else --port; HOST when set,
\* else 0.0.0.0 when PORT is set, else --host; no debug when PORT is set
ClaimedSettings(args, env) ==
    [port |-> IF env.PORT.set THEN NatVal(env.PORT.text) ELSE args.port,
     host |-> IF env.HOST.set THEN env.HOST.text
              ELSE IF env.PORT.set THEN <<"0",".","0",".","0",".","0">> ELSE args.host,
     debug |-> args.debug /\ ~env.PORT.set]

\* C23: at start-up the environment overrides the command line: the script
\* gets to its settings, and the port is the PORT environment variable when
\* set, else --port; the host is the HOST environment variable when set, else
\* 0.0.0.0 when PORT is set, else --host; debug is off whenever PORT is set.
C23_EnvOverridesCommandLine ==
    /\ pc # "uncaught"
    /\ pc \in {"try", "exit"} =>
          /\ main_out.port = ClaimedSettings(main_args, main_env).port
          /\ main_out.host = ClaimedSettings(main_args, main_env).host
          /\ main_out.debug = ClaimedSettings(main_args, main_env).debug

\* what holds of the code: whenever int() accepts PORT (or PORT is unset) the
\* settings are the claimed ones
C23_SettingsWhenPortIsNumber ==
    pc \in {"try", "exit"} =>
        /\ main_out.port = ClaimedSettings(main_args, main_env).port
        /\ main_out.host = ClaimedSettings(main_args, main_env).host
        /\ main_out.debug = ClaimedSettings(main_args, main_env).debug

\* PORT is set to the empty text: int('') raised before the try statement
C23_EmptyPortCrashes ==
    /\ pc = "uncaught"
    /\ main_env.PORT = SetTo(<<>>)
    /\ main_out.status = 1

(***************************************************************************)
(* main.py: create_app, the layout and the callbacks                       *)
(***************************************************************************)

\* classify_object_type_local without the keyword 'cloud'
classify_object_type_local_NoCloud(v) ==
    IF Contains(Lower(Str(v)), <<"g","a","l","a","x","y">>) THEN "Galaxy"
    ELSE IF Contains(Lower(Str(v)), <<"n","e","b","u","l","a">>) THEN "Nebula"
    ELSE IF Contains(Lower(Str(v)), <<"c","l","u","s","t","e","r">>) THEN "Cluster"
    ELSE "Other"

\* classify_object_type_local of get_filter_options
classify_object_type_local(v) ==
    LET obj_type_str == Lower(Str(v))
    IN  IF Contains(obj_type_str, <<"g","a","l","a","x","y">>) THEN "Galaxy"
        ELSE IF Contains(obj_type_str, <<"n","e","b","u","l","a">>) THEN "Nebula"
        ELSE IF Contains(obj_type_str, <<"c","l","u","s","t","e","r">>) \/ Contains(obj_type_str, <<"c","l","o","u","d">>)
        THEN "Cluster"
        ELSE "Other"

\* sorted(column.dropna().unique()): the values of a column, sorted by text
SortedUnique(cells) ==
    LET names == sorted({c.s : c \in {d \in Range(cells) : ~IsNa(d)}})
    IN  [i \in 1..Len(names) |-> StrV(names[i])]

\* get_filter_options(data)
get_filter_options(data) ==
    LET object_types == SortedUnique([i \in 1..Len(data) |-> data[i].Object_type])
        categorized_types ==
            [category \in {classify_object_type_local(object_types[i]) :
                              i \in 1..Len(object_types)} |->
                SelectSeq(object_types,
                          LAMBDA t : classify_object_type_local(t) = category)]
        Ordered(category) ==
            IF category \in DOMAIN categorized_types
            THEN SortedUnique(categorized_types[category]) ELSE <<>>
    IN  [object_types |-> Ordered("Galaxy") \o Ordered("Nebula") \o Ordered("Cluster")
                          \o Ordered("Other"),
         object_types_by_category |-> categorized_types,
         constellations |-> SortedUnique([i \in 1..Len(data) |-> data[i].Constellation]),
         seasons |-> SortedUnique([i \in 1..Len(data) |-> data[i].Best_Viewing])]

\* the icons of a panel header: "▼ " and "▶ "
IconOpen == "down "
IconClosed == "right "

\* f"{n} selected"
Selected(n) == IntStr(n) \o <<" ","s","e","l","e","c","t","e","d">>

\* the three filters: the component properties and the callbacks of each
Filters ==
    ("object-type" :>
        [value |-> "object-type-filter.value", options |-> "object_types",
         is_open |-> "object-type-collapse.is_open", icon |-> "object-type-icon.children",
         badge |-> "object-type-badge.children",
         button |-> "object-type-collapse-button.n_clicks",
         select |-> "select-all-types.n_clicks", deselect |-> "deselect-all-types.n_clicks",
         toggle_collapse |-> "toggle_object_type_collapse",
         update_badge |-> "update_object_type_badge",
         toggle_all |-> "toggle_all_object_types"])
    @@ ("constellation" :>
        [value |-> "constellation-filter.value", options |-> "constellations",
         is_open |-> "constellation-collapse.is_open", icon |-> "constellation-icon.children",
         badge |-> "constellation-badge.children",
         button |-> "constellation-collapse-button.n_clicks",
         select |-> "select-all-constellations.n_clicks",
         deselect |-> "deselect-all-constellations.n_clicks",
         toggle_collapse |-> "toggle_constellation_collapse",
         update_badge |-> "update_constellation_badge",
         toggle_all |-> "toggle_all_constellations"])
    @@ ("season" :>
        [value |-> "season-filter.value", options |-> "seasons",
         is_open |-> "season-collapse.is_open", icon |-> "season-icon.children",
         badge |-> "season-badge.children",
         button |-> "season-collapse-button.n_clicks",
         select |-> "select-all-seasons.n_clicks", deselect |-> "deselect-all-seasons.n_clicks",
         toggle_collapse |-> "toggle_season_collapse",
         update_badge |-> "update_season_badge",
         toggle_all |-> "toggle_all_seasons"])

\* the display toggles
Toggles ==
    {"star-labels-toggle.value", "constellation-lines-toggle.value",
     "constellation-labels-toggle.value"}

NoFigure == [data |-> <<>>, layout |-> ""]

\* create_layout(filter_options): the properties of the page as it is served;
\* a property the layout does not set (n_clicks, children, figure) is empty
create_layout(options) ==
    LET Panel(f, icon) ==
            (Filters[f].value :> options[Filters[f].options])
            @@ (Filters[f].is_open :> FALSE)
            @@ (Filters[f].icon :> icon)
            @@ (Filters[f].badge :> Selected(Len(options[Filters[f].options])))
            @@ (Filters[f].button :> 0)
    IN  Panel("object-type", IconOpen) @@ Panel("constellation", IconClosed)
        @@ Panel("season", IconClosed)
        @@ [t \in Toggles |-> <<"show">>]
        @@ ("object-count.children" :> <<>>)
        @@ ("sky-chart.figure" :> NoFigure)

\* what update_chart leaves behind, r being what create_sky_chart did: the figure
\* returned, the chart object and the dataset of the closure after the call
ChartUpdate(data, r) == [figure |-> r.fig, chart |-> r.self, messier_data |-> data]

\* update_chart (lines 44-59)
update_chart(data, self, selected_types, selected_constellations, selected_seasons, show_star_labels, show_constellation_lines, show_constellation_labels) ==
    ChartUpdate(data,
                create_sky_chart(self,
                                 Table(filter_data(data, selected_types,
                                                   selected_constellations, selected_seasons)),
                                 Len(show_star_labels) > 0,
                                 Len(show_constellation_lines) > 0,
                                 Len(show_constellation_labels) > 0))

\* update_object_count that keeps the filtered table as the dataset
update_object_count_KeepsFiltered(data, selected_types, selected_constellations, selected_seasons) ==
    LET filtered_data == filter_data(data, selected_types, selected_constellations,
                                     selected_seasons)
    IN  [children |-> <<"S","h","o","w","i","n","g"," ">> \o IntStr(Len(filtered_data)) \o <<" ","o","f"," ">>
                      \o IntStr(Len(data)) \o <<" ","o","b","j","e","c","t","s">>,
         messier_data |-> filtered_data]

\* update_object_count that counts the dataset instead of the filtered table
update_object_count_CountsAll(data, selected_types, selected_constellations, selected_seasons) ==
    [children |-> <<"S","h","o","w","i","n","g"," ">> \o IntStr(Len(data)) \o <<" ","o","f"," ">>
                  \o IntStr(Len(data)) \o <<" ","o","b","j","e","c","t","s">>,
     messier_data |-> data]

\* update_object_count (lines 67-75): the text returned; the dataset of the
\* closure after the call
update_object_count(data, selected_types, selected_constellations, selected_seasons) ==
    LET filtered_data == filter_data(data, selected_types, selected_constellations,
                                     selected_seasons)
    IN  [children |-> <<"S","h","o","w","i","n","g"," ">> \o IntStr(Len(filtered_data)) \o <<" ","o","f"," ">>
                      \o IntStr(Len(data)) \o <<" ","o","b","j","e","c","t","s">>,
         messier_data |-> data]

\* toggle_*_collapse that opens the panel whatever its state
toggle_collapse_AlwaysOpen(n_clicks, is_open) == <<TRUE, IconOpen>>

\* toggle_object_type_collapse, toggle_constellation_collapse and
\* toggle_season_collapse (lines 85-118), which differ in their wiring only
toggle_collapse(n_clicks, is_open) ==
    IF n_clicks # 0
    THEN <<~is_open, IF ~is_open THEN IconOpen ELSE IconClosed>>
    ELSE <<is_open, IconClosed>>

\* toggle_all_filters (lines 132-146); triggered is ctx.triggered[0]['prop_id']
toggle_all_filters(triggered) ==
    IF triggered = "expand-all-filters.n_clicks"
    THEN <<TRUE, TRUE, TRUE, IconOpen, IconOpen, IconOpen>>
    ELSE <<FALSE, FALSE, FALSE, IconClosed, IconClosed, IconClosed>>

\* update_object_type_badge, update_constellation_badge, update_season_badge
update_badge(selected) == <<Selected(Len(selected))>>

\* toggle_all_* that returns the full list whatever button was clicked
toggle_all_AlwaysAll(f, options, triggered) == <<options>>

\* toggle_all_object_types, toggle_all_constellations, toggle_all_seasons
\* (lines 176-222); options is the list of filter_options the function returns
toggle_all(f, options, triggered) ==
    IF triggered = Filters[f].deselect THEN << <<>> >> ELSE <<options>>

\* the Inputs of each callback, and whether it is kept from running at page load
Inputs ==
    [cb \in {"update_chart"} |->
        {Filters[f].value : f \in DOMAIN Filters} \cup Toggles]
    @@ [cb \in {"update_object_count"} |-> {Filters[f].value : f \in DOMAIN Filters}]
    @@ [cb \in {"toggle_all_filters"} |->
          {"expand-all-filters.n_clicks", "collapse-all-filters.n_clicks"}]
    @@ [cb \in {Filters[f].toggle_collapse : f \in DOMAIN Filters} |->
          {Filters[f].button : f \in {g \in DOMAIN Filters : Filters[g].toggle_collapse = cb}}]
    @@ [cb \in {Filters[f].update_badge : f \in DOMAIN Filters} |->
          {Filters[f].value : f \in {g \in DOMAIN Filters : Filters[g].update_badge = cb}}]
    @@ [cb \in {Filters[f].toggle_all : f \in DOMAIN Filters} |->
          UNION {{Filters[f].select, Filters[f].deselect} :
                    f \in {g \in DOMAIN Filters : Filters[g].toggle_all = cb}}]

PreventInitialCall ==
    {"toggle_all_filters"}
    \cup {Filters[f].toggle_collapse : f \in DOMAIN Filters}
    \cup {Filters[f].toggle_all : f \in DOMAIN Filters}

\* the Outputs with toggle_all_constellations wired to the object-type checklist
Outputs_Miswired(cb) ==
    CASE cb = "update_chart" -> <<"sky-chart.figure">>
      [] cb = "update_object_count" -> <<"object-count.children">>
      [] cb = "toggle_all_filters" ->
            <<Filters["object-type"].is_open, Filters["constellation"].is_open,
              Filters["season"].is_open, Filters["object-type"].icon,
              Filters["constellation"].icon, Filters["season"].icon>>
      [] cb = "toggle_all_constellations" -> <<Filters["object-type"].value>>
      [] OTHER ->
            LET f == CHOOSE g \in DOMAIN Filters :
                        cb \in {Filters[g].toggle_collapse, Filters[g].update_badge,
                                Filters[g].toggle_all}
            IN  CASE cb = Filters[f].toggle_collapse -> <<Filters[f].is_open, Filters[f].icon>>
                  [] cb = Filters[f].update_badge -> <<Filters[f].badge>>
                  [] cb = Filters[f].toggle_all -> <<Filters[f].value>>

\* the Outputs of each callback, in the order of its decorator
Outputs(cb) ==
    CASE cb = "update_chart" -> <<"sky-chart.figure">>
      [] cb = "update_object_count" -> <<"object-count.children">>
      [] cb = "toggle_all_filters" ->
            <<Filters["object-type"].is_open, Filters["constellation"].is_open,
              Filters["season"].is_open, Filters["object-type"].icon,
              Filters["constellation"].icon, Filters["season"].icon>>
      [] OTHER ->
            LET f == CHOOSE g \in DOMAIN Filters :
                        cb \in {Filters[g].toggle_collapse, Filters[g].update_badge,
                                Filters[g].toggle_all}
            IN  CASE cb = Filters[f].toggle_collapse -> <<Filters[f].is_open, Filters[f].icon>>
                  [] cb = Filters[f].update_badge -> <<Filters[f].badge>>
                  [] cb = Filters[f].toggle_all -> <<Filters[f].value>>

\* the callbacks the page dispatches when a property changes
Triggered(prop_id) ==
    {[cb |-> cb, trigger |-> prop_id] : cb \in {c \in DOMAIN Inputs : prop_id \in Inputs[c]}}

\* the page after a callback returned values for its Outputs
Returned(cb, values) ==
    [k \in DOMAIN props |->
        IF \E i \in 1..Len(Outputs(cb)) : Outputs(cb)[i] = k
        THEN values[CHOOSE i \in 1..Len(Outputs(cb)) : Outputs(cb)[i] = k]
        ELSE props[k]]

\* the callbacks still to run after cb returned: those its Outputs trigger are added
StillPending(cb) ==
    {e \in pending : e.cb # cb}
    \cup UNION {Triggered(Outputs(cb)[i]) : i \in 1..Len(Outputs(cb))}

\* ---------------------------------------------------------------- the page in use
\* what a UI step leaves alone
uiFrame ==
    <<pc, classVars, coordVars, loadVars, decimal, procVars, filterVars, chart_log,
      mainVars, loaded>>

\* create_app (lines 20-31) and the page load: the callbacks that are not
\* kept from it are dispatched
InitUI ==
    /\ pc = "ui"
    /\ ClassIdle
    /\ CoordIdle
    /\ LoadIdle
    /\ decimal = 0
    /\ ProcIdle
    /\ FilterIdle
    /\ MainIdle
    /\ chart_log = NoCalls
    /\ \E c \in Catalogs : messier_data = process_coordinates(c).ret
    /\ chart = MessierSkyChart(messier_data)
    /\ filter_options = get_filter_options(messier_data)
    /\ props = create_layout(filter_options)
    /\ pending = {[cb |-> cb, trigger |-> ""] : cb \in DOMAIN Inputs \ PreventInitialCall}
    /\ ui_events = 0
    /\ loaded = [messier_data |-> messier_data, filter_options |-> filter_options]

\* the user, the page being at rest, changes a property
UserSets(prop_id, value) ==
    /\ pending = {}
    /\ ui_events < MaxEvents
    /\ props' = [props EXCEPT ![prop_id] = value]
    /\ pending' = Triggered(prop_id)
    /\ ui_events' = ui_events + 1
    /\ UNCHANGED <<uiFrame, chart, messier_data, filter_options>>

\* a checkbox of a filter is ticked (its value is appended) or unticked
CheckOption(f, option) ==
    LET value == props[Filters[f].value]
    IN  UserSets(Filters[f].value,
                 IF option \in Range(value)
                 THEN SelectSeq(value, LAMBDA v : v # option)
                 ELSE Append(value, option))

\* a display toggle is ticked or unticked
CheckToggle(t) ==
    UserSets(t, IF props[t] = <<>> THEN <<"show">> ELSE <<>>)

\* the header button of a panel is clicked
ClickHeader(f) ==
    UserSets(Filters[f].button, props[Filters[f].button] + 1)

\* a button whose n_clicks no callback reads is clicked
ClickButton(button) ==
    /\ pending = {}
    /\ ui_events < MaxEvents
    /\ pending' = Triggered(button)
    /\ ui_events' = ui_events + 1
    /\ UNCHANGED <<uiFrame, props, chart, messier_data, filter_options>>

AllFiltersButtons == {"expand-all-filters.n_clicks", "collapse-all-filters.n_clicks"}

\* a dispatched callback runs and its Outputs are set
UpdateChart ==
    /\ \E e \in pending : e.cb = "update_chart"
    /\ \E r \in {update_chart(messier_data, chart,
                             props["object-type-filter.value"],
                             props["constellation-filter.value"],
                             props["season-filter.value"],
                             props["star-labels-toggle.value"],
                             props["constellation-lines-toggle.value"],
                             props["constellation-labels-toggle.value"])} :
          /\ props' = Returned("update_chart", <<r.figure>>)
          /\ chart' = r.chart
          /\ messier_data' = r.messier_data
    /\ pending' = StillPending("update_chart")
    /\ UNCHANGED <<uiFrame, filter_options, ui_events>>

UpdateObjectCount ==
    /\ \E e \in pending : e.cb = "update_object_count"
    /\ \E r \in {update_object_count(messier_data,
                                    props["object-type-filter.value"],
                                    props["constellation-filter.value"],
                                    props["season-filter.value"])} :
          /\ props' = Returned("update_object_count", <<r.children>>)
          /\ messier_data' = r.messier_data
    /\ pending' = StillPending("update_object_count")
    /\ UNCHANGED <<uiFrame, chart, filter_options, ui_events>>

UpdateBadge(f) ==
    /\ \E e \in pending : e.cb = Filters[f].update_badge
    /\ props' = Returned(Filters[f].update_badge, update_badge(props[Filters[f].value]))
    /\ pending' = StillPending(Filters[f].update_badge)
    /\ UNCHANGED <<uiFrame, chart, messier_data, filter_options, ui_events>>

ToggleCollapse(f) ==
    /\ \E e \in pending : e.cb = Filters[f].toggle_collapse
    /\ props' = Returned(Filters[f].toggle_collapse,
                         toggle_collapse(props[Filters[f].button], props[Filters[f].is_open]))
    /\ pending' = StillPending(Filters[f].toggle_collapse)
    /\ UNCHANGED <<uiFrame, chart, messier_data, filter_options, ui_events>>

ToggleAllFilters ==
    /\ \E e \in pending :
          /\ e.cb = "toggle_all_filters"
          /\ props' = Returned("toggle_all_filters", toggle_all_filters(e.trigger))
    /\ pending' = StillPending("toggle_all_filters")
    /\ UNCHANGED <<uiFrame, chart, messier_data, filter_options, ui_events>>

ToggleAll(f) ==
    /\ \E e \in pending :
          /\ e.cb = Filters[f].toggle_all
          /\ props' = Returned(Filters[f].toggle_all,
                               toggle_all(f, filter_options[Filters[f].options], e.trigger))
    /\ pending' = StillPending(Filters[f].toggle_all)
    /\ UNCHANGED <<uiFrame, chart, messier_data, filter_options, ui_events>>

NextUI ==
    \/ \E f \in DOMAIN Filters :
          \E option \in Range(loaded.filter_options[Filters[f].options]) : CheckOption(f, option)
    \/ \E t \in Toggles : CheckToggle(t)
    \/ \E f \in DOMAIN Filters : ClickHeader(f)
    \/ \E button \in AllFiltersButtons : ClickButton(button)
    \/ \E f \in DOMAIN Filters : ClickButton(Filters[f].select)
    \/ \E f \in DOMAIN Filters : ClickButton(Filters[f].deselect)
    \/ UpdateChart
    \/ UpdateObjectCount
    \/ \E f \in DOMAIN Filters : UpdateBadge(f)
    \/ \E f \in DOMAIN Filters : ToggleCollapse(f)
    \/ ToggleAllFilters
    \/ \E f \in DOMAIN Filters : ToggleAll(f)

SpecUI == InitUI /\ [][NextUI]_vars

\* the rows filter_data passes for the selections the page shows
CurrentlyFiltered ==
    filter_data(messier_data, props["object-type-filter.value"],
                props["constellation-filter.value"], props["season-filter.value"])

\* C15: after any sequence of UI callbacks (chart update, count update, badge
\* updates, panel toggles, expand/collapse all, select/deselect all) the dataset
\* the application holds, the dataset of its chart object and the filter option
\* lists equal their values right after the initial load.
C15_DatasetReadOnly ==
    pc = "ui" =>
        /\ messier_data = loaded.messier_data
        /\ chart.messier_data = loaded.messier_data
        /\ filter_options = loaded.filter_options

\* two user events were handled to the end, the chart and the count having been
\* recomputed for a selection that passes fewer rows than the dataset has
C15_Witness ==
    /\ pc = "ui"
    /\ pending = {}
    /\ ui_events = MaxEvents
    /\ props["sky-chart.figure"] # NoFigure
    /\ Len(CurrentlyFiltered) < Len(messier_data)
    /\ props["object-count.children"] =
          update_object_count(messier_data, props["object-type-filter.value"],
                              props["constellation-filter.value"],
                              props["season-filter.value"]).children
    /\ messier_data = loaded.messier_data

\* the properties that hold the open/closed state of the panels
PanelProps ==
    UNION {{Filters[f].is_open, Filters[f].icon, Filters[f].button} : f \in DOMAIN Filters}

\* a step of a panel: a header or Expand All / Collapse All is clicked, or the
\* callback such a click triggers runs
PanelStep ==
    \/ \E f \in DOMAIN Filters : ClickHeader(f) \/ ToggleCollapse(f)
    \/ \E button \in AllFiltersButtons : ClickButton(button)
    \/ ToggleAllFilters

\* a step of Select All / Deselect All of the filter f: the click, or the
\* callback it triggers
SelectStep(f) ==
    \/ ClickButton(Filters[f].select)
    \/ ClickButton(Filters[f].deselect)
    \/ ToggleAll(f)

\* the dataset, the chart object and the option lists are left as they are
DataModelKept ==
    /\ messier_data' = messier_data
    /\ chart' = chart
    /\ filter_options' = filter_options

\* C16: a click on a panel header, on Expand All Filters or on Collapse All
\* Filters, and the callback it triggers, change only the is_open flags and
\* icons of the panels (and the click count of the header): the three filter
\* selections, the three display toggles, the displayed count and the chart
\* stay as they are.  Select All / Deselect All of one filter changes, of the
\* page, only that filter's selection.  Neither changes the dataset.
C16_PanelsAndSelectAllLocal ==
    [][ /\ PanelStep =>
            /\ \A k \in DOMAIN props \ PanelProps : props'[k] = props[k]
            /\ DataModelKept
        /\ \A f \in DOMAIN Filters :
              SelectStep(f) =>
                 /\ \A k \in DOMAIN props \ {Filters[f].value} : props'[k] = props[k]
                 /\ DataModelKept ]_vars

\* a panel was opened by its header and Deselect All then emptied the
\* selection of the constellation filter, the other two selections being whole
C16_Witness ==
    /\ pc = "ui"
    /\ pending = {}
    /\ ui_events = 2
    /\ props[Filters["season"].is_open]
    /\ props[Filters["season"].icon] = IconOpen
    /\ props[Filters["season"].button] = 1
    /\ props[Filters["constellation"].value] = <<>>
    /\ props[Filters["object-type"].value] = filter_options.object_types
    /\ props[Filters["season"].value] = filter_options.seasons
    /\ messier_data = loaded.messier_data

\* the traces of the Messier objects in the figure the page shows
MessierTraces ==
    SelectSeq(props["sky-chart.figure"].data, LAMBDA trace : trace.layer = "messier")

\* the Messier numbers drawn, and how many points are drawn
DrawnObjects == UNION {Range(MessierTraces[i].text) : i \in 1..Len(MessierTraces)}
RECURSIVE PointCount(_)
PointCount(traces) ==
    IF traces = <<>> THEN 0 ELSE Len(Head(traces).text) + PointCount(Tail(traces))

\* the text 'Showing k of N objects'
ShowingOf(k, n) ==
    <<"S","h","o","w","i","n","g"," ">> \o IntStr(k) \o <<" ","o","f"," ">> \o IntStr(n)
    \o <<" ","o","b","j","e","c","t","s">>

\* C19: once the callbacks triggered by the last change have run, the page is
\* consistent with the current selections: the count text is 'Showing k of N
\* objects', k being the number of rows filter_data passes for the three
\* selections and N the size of the dataset; the Messier traces of the chart
\* hold exactly those k rows, each once; and the badge of each filter shows
\* the number of options selected in it.
C19_DisplayFollowsSelection ==
    (pc = "ui" /\ pending = {}) =>
        /\ props["object-count.children"] =
              ShowingOf(Len(CurrentlyFiltered), Len(messier_data))
        /\ DrawnObjects =
              {CurrentlyFiltered[i].Messier_number : i \in 1..Len(CurrentlyFiltered)}
        /\ PointCount(MessierTraces) = Len(CurrentlyFiltered)
        /\ \A f \in DOMAIN Filters :
              props[Filters[f].badge] = Selected(Len(props[Filters[f].value]))

\* a constellation was unticked and a season deselected or unticked: one of the
\* three objects is left, drawn and counted, and the badges show fewer options
C19_Witness ==
    /\ pc = "ui"
    /\ pending = {}
    /\ ui_events = 2
    /\ Len(messier_data) = 3
    /\ Len(CurrentlyFiltered) = 1
    /\ props["object-count.children"] = ShowingOf(1, 3)
    /\ DrawnObjects = {CurrentlyFiltered[1].Messier_number}
    /\ Len(props[Filters["constellation"].value]) = 1
    /\ props[Filters["constellation"].badge] = Selected(1)
    /\ Len(props[Filters["season"].value]) < Len(filter_options.seasons)

\* the traces a helper added to the figure the page shows
TracesOf(layer) ==
    SelectSeq(props["sky-chart.figure"].data, LAMBDA trace : trace.layer = layer)

\* a display toggle is checked
Checked(t) == props[t] # <<>>

\* the number of lines the chart object holds that have two points or more
RECURSIVE DrawableLines(_)
DrawableLines(cl) ==
    IF cl = <<>> THEN 0
    ELSE Len(SelectSeq(Head(cl).lines, LAMBDA line : Len(line) >= 2))
         + DrawableLines(Tail(cl))

\* C20: in the chart the page shows once update_chart has run, the
\* constellation line traces are present (all of them) exactly when the
\* constellation-lines toggle is checked; the one constellation-label trace is
\* present exactly when the constellation-labels toggle is checked; there is
\* exactly one bright-star trace whatever the toggles, and it carries the star
\* names as text exactly when the star-labels toggle is checked; the Messier
\* traces are those of the rows the selections pass, whatever the toggles.
C20_TogglesParameterizeChart ==
    (pc = "ui" /\ pending = {}) =>
        /\ Len(TracesOf("lines")) =
              (IF Checked("constellation-lines-toggle.value")
               THEN DrawableLines(chart.constellation_lines) ELSE 0)
        /\ Len(TracesOf("labels")) =
              (IF Checked("constellation-labels-toggle.value") THEN 1 ELSE 0)
        /\ Len(TracesOf("stars")) = 1
        /\ LET stars == TracesOf("stars")[1]
           IN  IF Checked("star-labels-toggle.value")
               THEN /\ stars.mode = "markers+text"
                    /\ stars.text = [i \in 1..Len(chart.bright_stars) |->
                                        chart.bright_stars[i].name]
               ELSE /\ stars.mode = "markers"
                    /\ stars.text = <<>>
        /\ TracesOf("messier") = add_messier_objects(CurrentlyFiltered)

\* the star-labels and the constellation-lines toggles were unchecked: the
\* chart has the star trace without names, no line trace, the label trace and
\* the traces of all the objects
C20_Witness ==
    /\ pc = "ui"
    /\ pending = {}
    /\ ui_events = 2
    /\ ~Checked("star-labels-toggle.value")
    /\ ~Checked("constellation-lines-toggle.value")
    /\ Checked("constellation-labels-toggle.value")
    /\ TracesOf("lines") = <<>>
    /\ Len(TracesOf("labels")) = 1
    /\ TracesOf("stars")[1].mode = "markers"
    /\ Len(CurrentlyFiltered) = 3
    /\ PointCount(TracesOf("messier")) = 3

\* the callback of Select All / Deselect All of the filter f runs, the button
\* clicked being the given one
ToggleAllBy(f, button) ==
    /\ [cb |-> Filters[f].toggle_all, trigger |-> button] \in pending
    /\ ToggleAll(f)

\* C21: for each filter, the callback a click on Select All triggers sets the
\* filter's selection to the full list of its options, and the one a click on
\* Deselect All triggers sets it to the empty list, whatever the selection
\* was; and once the callbacks have run with the selection of a filter empty,
\* the chart holds no Messier trace and the count reads 'Showing 0 of N
\* objects'.
C21_SelectAllDeselectAll ==
    /\ [][\A f \in DOMAIN Filters :
             /\ ToggleAllBy(f, Filters[f].select) =>
                   props'[Filters[f].value] = loaded.filter_options[Filters[f].options]
             /\ ToggleAllBy(f, Filters[f].deselect) =>
                   props'[Filters[f].value] = <<>>]_vars
    /\ [](pc = "ui" /\ pending = {}
          /\ (\E f \in DOMAIN Filters : props[Filters[f].value] = <<>>)
          => /\ TracesOf("messier") = <<>>
             /\ props["object-count.children"] = ShowingOf(0, Len(messier_data)))

\* Deselect All emptied the selection of the object-type filter, which has
\* three options, after one of them had been unticked; the callbacks have run
C21_Witness ==
    /\ pc = "ui"
    /\ pending = {}
    /\ ui_events = 2
    /\ Len(filter_options.object_types) = 3
    /\ props[Filters["object-type"].value] = <<>>
    /\ props[Filters["object-type"].badge] = Selected(0)
    /\ TracesOf("messier") = <<>>
    /\ props["object-count.children"] = ShowingOf(0, 3)

\* the icon that goes with an open and with a closed panel
IconFor(is_open) == IF is_open THEN IconOpen ELSE IconClosed

\* toggle_all_filters runs, the button clicked being the given one
ToggleAllFiltersBy(button) ==
    /\ [cb |-> "toggle_all_filters", trigger |-> button] \in pending
    /\ ToggleAllFilters

\* C22: the callback a click on the header of a panel triggers flips the
\* is_open flag of that panel and sets its icon to the open icon if the panel
\* is now open and to the closed icon if it is now closed, leaving the flags
\* and icons of the other two panels as they are; the callback of Expand All
\* Filters sets the three panels open with the open icon and the callback of
\* Collapse All Filters sets the three closed with the closed icon, whatever
\* they were.
C22_PanelToggles ==
    [][/\ \A f \in DOMAIN Filters :
             ToggleCollapse(f) =>
                /\ props'[Filters[f].is_open] = ~props[Filters[f].is_open]
                /\ props'[Filters[f].icon] = IconFor(props'[Filters[f].is_open])
                /\ \A g \in DOMAIN Filters \ {f} :
                      /\ props'[Filters[g].is_open] = props[Filters[g].is_open]
                      /\ props'[Filters[g].icon] = props[Filters[g].icon]
       /\ ToggleAllFiltersBy("expand-all-filters.n_clicks") =>
             \A f \in DOMAIN Filters :
                props'[Filters[f].is_open] /\ props'[Filters[f].icon] = IconOpen
       /\ ToggleAllFiltersBy("collapse-all-filters.n_clicks") =>
             \A f \in DOMAIN Filters :
                ~props'[Filters[f].is_open] /\ props'[Filters[f].icon] = IconClosed]_vars

\* Expand All Filters opened the three panels and a click on the header of the
\* constellation panel then closed that one
C22_Witness ==
    /\ pc = "ui"
    /\ pending = {}
    /\ ui_events = 2
    /\ props[Filters["constellation"].button] = 1
    /\ ~props[Filters["constellation"].is_open]
    /\ props[Filters["constellation"].icon] = IconClosed
    /\ \A f \in {"object-type", "season"} :
          props[Filters[f].is_open] /\ props[Filters[f].icon] = IconOpen

\* C27: the two classifiers agree: for every object-type value, string or not,
\* the local classifier of get_filter_options returns the category
\* config.classify_object_type returned.
C27_ClassifiersAgree ==
    \A i \in 1..Len(categories) :
        categories[i] = classify_object_type_local(obj_type)

\* 'Milky Way star cloud', in upper case, was classified Cluster by both
C27_Witness ==
    /\ categories # <<>>
    /\ obj_type = StrV(Upper(YOUR_OBJECT_TYPES[6]))
    /\ categories[1] = "Cluster"
    /\ classify_object_type_local(obj_type) = "Cluster"

\* C28: in every state of the page, the layout as served included, the icon of
\* each filter panel agrees with its open state: the open icon exactly when
\* is_open is true, the closed icon exactly when it is false.
C28_IconAgreesWithOpenState ==
    pc = "ui" =>
        \A f \in DOMAIN Filters : props[Filters[f].icon] = IconFor(props[Filters[f].is_open])

\* what holds of the code: the constellation and season panels always agree,
\* and the object-type panel disagrees only while it is closed as served, the
\* callback of a click on its header not yet run
C28_AgreesOnceToggled ==
    pc = "ui" =>
        /\ \A f \in {"constellation", "season"} :
              props[Filters[f].icon] = IconFor(props[Filters[f].is_open])
        /\ \/ props[Filters["object-type"].icon] = IconFor(props[Filters["object-type"].is_open])
           \/ /\ ~props[Filters["object-type"].is_open]
              /\ props[Filters["object-type"].icon] = IconOpen
              /\ \/ props[Filters["object-type"].button] = 0
                 \/ \E e \in pending : e.cb = Filters["object-type"].toggle_collapse

\* the page was loaded and nothing clicked: the object-type panel is closed
\* and its header shows the open icon
C28_ServedClosedWithOpenIcon ==
    /\ pc = "ui"
    /\ pending = {}
    /\ ui_events = 0
    /\ ~props[Filters["object-type"].is_open]
    /\ props[Filters["object-type"].icon] = IconOpen

\* every option of each of the three filters is selected
AllSelected ==
    \A f \in DOMAIN Filters :
        Range(props[Filters[f].value]) = Range(filter_options[Filters[f].options])

\* a row with a missing object type, constellation or viewing season
HasMissingCell(row) ==
    IsNa(row.Object_type) \/ IsNa(row.Constellation) \/ IsNa(row.Best_Viewing)

\* every row of the dataset is passed, counted and drawn
AllShown ==
    /\ Len(CurrentlyFiltered) = Len(messier_data)
    /\ props["object-count.children"] = ShowingOf(Len(messier_data), Len(messier_data))
    /\ PointCount(TracesOf("messier")) = Len(messier_data)

\* C29: when every option of the three filters is selected and the callbacks
\* have run, filter_data passes every row of the dataset: the count reads
\* 'Showing N of N objects' and every object is drawn, whatever the dataset,
\* one with missing object types, constellations or seasons included.
C29_AllSelectedShowsAll ==
    (pc = "ui" /\ pending = {} /\ AllSelected) => AllShown

\* what holds of the code: with every option selected, all rows are shown when
\* no row has a missing cell, and exactly the rows without one otherwise
C29_AllSelectedShowsCompleteRows ==
    (pc = "ui" /\ pending = {} /\ AllSelected) =>
        /\ CurrentlyFiltered = SelectSeq(messier_data, LAMBDA row : ~HasMissingCell(row))
        /\ props["object-count.children"] =
              ShowingOf(Len(CurrentlyFiltered), Len(messier_data))
        /\ PointCount(TracesOf("messier")) = Len(CurrentlyFiltered)

\* the dataset in which each of the three rows has a missing cell was loaded,
\* every option is selected, and the page shows none of the three objects
C29_RowsWithMissingCellsHidden ==
    /\ pc = "ui"
    /\ pending = {}
    /\ ui_events = 0
    /\ AllSelected
    /\ Len(messier_data) = 3
    /\ \A i \in 1..3 : HasMissingCell(messier_data[i])
    /\ props["object-count.children"] = ShowingOf(0, 3)
    /\ TracesOf("messier") = <<>>

====
